---- MODULE Spec2Model ----
(***************************************************************************)
(* EU AI Act risk classifier (ai_act_classifier_with_search.py).           *)
(*                                                                         *)
(* Stage 1, EnhancedInformationHarvestingAgent, turns a description into   *)
(* an AISystemProfile by substring matching against keyword taxonomies.    *)
(* Stage 2, RiskClassificationAgent, runs the profile through the ordered  *)
(* rule chain Exceptions -> Prohibited -> High-Risk -> Transparency ->     *)
(* Low-Risk and assembles a ClassificationResult.                          *)
(*                                                                         *)
(* Texts are TLA+ strings; Python's `in`, lower() and title() are computed *)
(* character by character.  The emoji that prefix some reasoning lines in  *)
(* the source are left out of the string constants, and a stage that       *)
(* lower-cases the description several times binds the value once.         *)
(*                                                                         *)
(* The web search of stage 1 reaches a provider outside the program; the   *)
(* provider (variable ddgs) may be missing, fail to open, raise on a query *)
(* or answer it with result dicts that lack some of their keys.            *)
(*                                                                         *)
(* Specifications: Spec (any sequence of classify calls on one engine),    *)
(* SpecProfile (one constructed profile, classified repeatedly),           *)
(* SpecHarvest (harvest with search disabled, then classify), SpecSearch   *)
(* (the same with search enabled), SpecPurpose                             *)
(* (_extract_primary_purpose on its own), SpecForm (the web form's submit  *)
(* handler) and SpecHeap (a sequence of classify calls with the engine's   *)
(* lists as objects that results refer to).                                *)
(***************************************************************************)
EXTENDS Integers, Sequences, FiniteSets, TLC

VARIABLES
  input,            \* (name, company, description) handed to the harvester
  profile,          \* the AISystemProfile being classified
  decision_path,    \* RiskClassificationAgent.decision_path
  reasoning,        \* RiskClassificationAgent.reasoning
  recommendations,  \* RiskClassificationAgent.recommendations
  result,           \* the ClassificationResult of the last classify call
  calls,            \* classify calls made on the engine so far
  enable_search,    \* EnhancedInformationHarvestingAgent.enable_search
  ddgs,             \* the search provider the harvester would reach
  purpose,          \* what a direct _extract_primary_purpose call returned
  heap,             \* the engine's list objects and the attributes bound to
                    \* them, followed by ClassifyOnHeap only
  returned          \* the results ClassifyOnHeap handed out, oldest first

vars ==
  <<input, profile, decision_path, reasoning, recommendations, result, calls,
    enable_search, ddgs, purpose, heap, returned>>

(***************************************************************************)
(* Python string primitives                                                *)
(***************************************************************************)

\* Python None (biometrics_purpose, additional_info)
None == "None"

\* no input submitted, no profile built, no result returned yet
NoInput == [absent |-> "input"]
NoProfile == [absent |-> "profile"]
NoResult == [absent |-> "result"]
NoPurpose == [absent |-> "purpose"]

\* the cased characters of the texts: upper-case |-> lower-case
ToLower ==
  [c \in {"A","B","C","D","E","F","G","H","I","J","K","L","M",
          "N","O","P","Q","R","S","T","U","V","W","X","Y","Z"} |->
     CASE c = "A" -> "a" [] c = "B" -> "b" [] c = "C" -> "c" [] c = "D" -> "d"
       [] c = "E" -> "e" [] c = "F" -> "f" [] c = "G" -> "g" [] c = "H" -> "h"
       [] c = "I" -> "i" [] c = "J" -> "j" [] c = "K" -> "k" [] c = "L" -> "l"
       [] c = "M" -> "m" [] c = "N" -> "n" [] c = "O" -> "o" [] c = "P" -> "p"
       [] c = "Q" -> "q" [] c = "R" -> "r" [] c = "S" -> "s" [] c = "T" -> "t"
       [] c = "U" -> "u" [] c = "V" -> "v" [] c = "W" -> "w" [] c = "X" -> "x"
       [] c = "Y" -> "y" [] c = "Z" -> "z"]

\* lower-case |-> upper-case
ToUpper ==
  [c \in {ToLower[u] : u \in DOMAIN ToLower} |->
     CHOOSE u \in DOMAIN ToLower : ToLower[u] = c]

\* one character of str.lower()
lower_char(c) == IF c \in DOMAIN ToLower THEN ToLower[c] ELSE c

\* one character of str.upper()
upper_char(c) == IF c \in DOMAIN ToUpper THEN ToUpper[c] ELSE c

is_cased(c) == c \in DOMAIN ToLower \/ c \in DOMAIN ToUpper

\* str.lower(): every character lower-cased (the string is halved so that
\* long texts do not nest deeply)
RECURSIVE lower(_)
lower(s) ==
  IF Len(s) = 0 THEN ""
  ELSE IF Len(s) = 1 THEN lower_char(s)
  ELSE LET h == Len(s) \div 2
       IN  lower(SubSeq(s, 1, h)) \o lower(SubSeq(s, h + 1, Len(s)))

\* str.title(): a cased character is upper-cased when it follows an uncased
\* one (or starts the string) and lower-cased otherwise.
RECURSIVE title_from(_, _)
title_from(s, prev_cased) ==
  IF s = "" THEN ""
  ELSE LET c == Head(s)
       IN  (IF prev_cased THEN lower_char(c) ELSE upper_char(c))
             \o title_from(Tail(s), is_cased(c))

title(s) == title_from(s, FALSE)

\* Python `kw in text` on strings: kw occurs as a substring of text.
str_in(kw, text) ==
  \E i \in 1..(Len(text) - Len(kw) + 1) : SubSeq(text, i, i + Len(kw) - 1) = kw

\* any(kw in text for kw in keywords)
any_in(keywords, text) ==
  \E i \in 1..Len(keywords) : str_in(keywords[i], text)

\* Python `x in list`
list_in(x, list) == \E i \in 1..Len(list) : list[i] = x

(***************************************************************************)
(* AISystemProfile                                                         *)
(***************************************************************************)

\* the dataclass constructor
AISystemProfile(name, company, description, sector, primary_purpose, user_base, biometrics_involved, biometrics_purpose, decision_making_role, high_risk_context, data_processed, deployment_context, additional_info, search_sources) ==
  [name |-> name, company |-> company, description |-> description,
   sector |-> sector, primary_purpose |-> primary_purpose,
   user_base |-> user_base, biometrics_involved |-> biometrics_involved,
   biometrics_purpose |-> biometrics_purpose,
   decision_making_role |-> decision_making_role,
   high_risk_context |-> high_risk_context,
   data_processed |-> data_processed,
   deployment_context |-> deployment_context,
   additional_info |-> additional_info, search_sources |-> search_sources]

(***************************************************************************)
(* EnhancedInformationHarvestingAgent: the keyword taxonomies              *)
(*                                                                         *)
(* A Python dict keeps its insertion order, so each taxonomy is the        *)
(* sequence of its (label, keywords) entries in declaration order.         *)
(***************************************************************************)

\* _analyze_description, lines 181-191
sector_keywords ==
  << [label |-> "automotive",
       keywords |-> <<"car", "vehicle", "driver", "automotive", "driving", "autonomous">>],
     [label |-> "healthcare",
       keywords |-> <<"health", "medical", "patient", "clinical", "diagnosis", "treatment", "hospital">>],
     [label |-> "financial",
       keywords |-> <<"bank", "finance", "credit", "loan", "mortgage", "payment", "insurance">>],
     [label |-> "education",
       keywords |-> <<"education", "student", "learning", "school", "university", "academic">>],
     [label |-> "law enforcement",
       keywords |-> <<"police", "law enforcement", "crime", "investigation", "surveillance">>],
     [label |-> "employment",
       keywords |-> <<"recruitment", "hiring", "employment", "hr", "candidate", "job">>],
     [label |-> "critical infrastructure",
       keywords |-> <<"infrastructure", "energy", "water", "electricity", "utility">>],
     [label |-> "border control",
       keywords |-> <<"border", "migration", "asylum", "immigration", "customs">>],
     [label |-> "justice",
       keywords |-> <<"court", "justice", "legal", "judicial", "litigation">>] >>

\* _analyze_description, lines 202-210
biometric_indicators ==
  << [label |-> "facial recognition",
       keywords |-> <<"facial recognition", "face recognition", "face detection", "facial identification">>],
     [label |-> "fingerprint",
       keywords |-> <<"fingerprint", "fingerprint scan", "fingerprint recognition">>],
     [label |-> "emotion recognition",
       keywords |-> <<"emotion recognition", "emotion detection", "emotional state", "sentiment analysis">>],
     [label |-> "voice biometric",
       keywords |-> <<"voice recognition", "speaker identification", "voice biometric">>],
     [label |-> "iris scan",
       keywords |-> <<"iris scan", "iris recognition", "retinal scan">>],
     [label |-> "gait recognition",
       keywords |-> <<"gait", "walking pattern">>],
     [label |-> "behavioral biometric",
       keywords |-> <<"keystroke", "mouse movement", "behavioral biometric">>] >>

\* _analyze_description, lines 231-236
\* decision_indicators with "Fully Automated Decision" declared first
decision_indicators_automated_first ==
  << [label |-> "Fully Automated Decision",
       keywords |-> <<"automated decision", "automatic decision", "without human intervention">>],
     [label |-> "Decision-making",
       keywords |-> <<"decide", "decision", "approve", "reject", "determine", "evaluate", "assess", "score", "rate">>],
     [label |-> "Assistive/Recommendatory",
       keywords |-> <<"recommend", "suggest", "assist", "advise", "guide", "help">>],
     [label |-> "Informational",
       keywords |-> <<"inform", "display", "show", "present", "visualize">>] >>

decision_indicators ==
  << [label |-> "Decision-making",
       keywords |-> <<"decide", "decision", "approve", "reject", "determine", "evaluate", "assess", "score", "rate">>],
     [label |-> "Assistive/Recommendatory",
       keywords |-> <<"recommend", "suggest", "assist", "advise", "guide", "help">>],
     [label |-> "Fully Automated Decision",
       keywords |-> <<"automated decision", "automatic decision", "without human intervention">>],
     [label |-> "Informational",
       keywords |-> <<"inform", "display", "show", "present", "visualize">>] >>

\* risk_indicators with "hospital" among the keywords of "Medical decision"
risk_indicators_hospital ==
  << [label |-> "Safety-critical environment",
       keywords |-> <<"safety", "critical", "emergency", "life-threatening">>],
     [label |-> "Vehicle operation",
       keywords |-> <<"vehicle", "car", "driver", "driving", "autonomous vehicle", "self-driving">>],
     [label |-> "Medical decision",
       keywords |-> <<"diagnosis", "treatment", "medical decision", "clinical decision", "patient care", "hospital">>],
     [label |-> "Financial decision",
       keywords |-> <<"credit", "loan", "financial decision", "creditworthiness", "credit score">>],
     [label |-> "Law enforcement",
       keywords |-> <<"law enforcement", "police", "crime", "investigation", "predictive policing">>],
     [label |-> "Employment decision",
       keywords |-> <<"recruitment", "hiring", "employment decision", "candidate selection", "performance evaluation">>],
     [label |-> "Educational assessment",
       keywords |-> <<"exam", "grade", "admission", "educational assessment", "student evaluation">>],
     [label |-> "Border control",
       keywords |-> <<"border", "migration", "asylum", "visa", "immigration">>],
     [label |-> "Justice administration",
       keywords |-> <<"court", "judge", "judicial", "legal proceeding", "evidence">>],
     [label |-> "Essential services access",
       keywords |-> <<"public benefit", "social service", "essential service", "welfare">>],
     [label |-> "Critical infrastructure",
       keywords |-> <<"power grid", "water supply", "transportation system", "energy infrastructure">>] >>

\* _analyze_description, lines 246-258
risk_indicators ==
  << [label |-> "Safety-critical environment",
       keywords |-> <<"safety", "critical", "emergency", "life-threatening">>],
     [label |-> "Vehicle operation",
       keywords |-> <<"vehicle", "car", "driver", "driving", "autonomous vehicle", "self-driving">>],
     [label |-> "Medical decision",
       keywords |-> <<"diagnosis", "treatment", "medical decision", "clinical decision", "patient care">>],
     [label |-> "Financial decision",
       keywords |-> <<"credit", "loan", "financial decision", "creditworthiness", "credit score">>],
     [label |-> "Law enforcement",
       keywords |-> <<"law enforcement", "police", "crime", "investigation", "predictive policing">>],
     [label |-> "Employment decision",
       keywords |-> <<"recruitment", "hiring", "employment decision", "candidate selection", "performance evaluation">>],
     [label |-> "Educational assessment",
       keywords |-> <<"exam", "grade", "admission", "educational assessment", "student evaluation">>],
     [label |-> "Border control",
       keywords |-> <<"border", "migration", "asylum", "visa", "immigration">>],
     [label |-> "Justice administration",
       keywords |-> <<"court", "judge", "judicial", "legal proceeding", "evidence">>],
     [label |-> "Essential services access",
       keywords |-> <<"public benefit", "social service", "essential service", "welfare">>],
     [label |-> "Critical infrastructure",
       keywords |-> <<"power grid", "water supply", "transportation system", "energy infrastructure">>] >>

\* _analyze_description, lines 266-276
data_indicators ==
  << [label |-> "Personal data",
       keywords |-> <<"personal", "user data", "individual data">>],
     [label |-> "Location data",
       keywords |-> <<"location", "navigation", "gps", "geolocation">>],
     [label |-> "Biometric data",
       keywords |-> <<"biometric", "facial", "fingerprint", "iris", "voice print">>],
     [label |-> "Voice/Audio data",
       keywords |-> <<"voice", "speech", "audio", "conversation", "recording">>],
     [label |-> "Video/Image data",
       keywords |-> <<"video", "camera", "image", "photograph", "visual">>],
     [label |-> "Financial data",
       keywords |-> <<"financial", "transaction", "payment", "banking", "credit card">>],
     [label |-> "Health data",
       keywords |-> <<"health", "medical", "clinical", "patient record", "diagnosis">>],
     [label |-> "Behavioral data",
       keywords |-> <<"behavior", "behaviour", "pattern", "habit", "activity">>],
     [label |-> "Sensitive attributes",
       keywords |-> <<"race", "ethnicity", "religion", "political", "sexual orientation", "health status">>] >>

\* _analyze_description, lines 283-294
deployment_contexts ==
  << [label |-> "In-vehicle system",
       keywords |-> <<"vehicle", "car", "automotive", "in-car">>],
     [label |-> "Healthcare facility",
       keywords |-> <<"hospital", "clinic", "medical facility", "healthcare">>],
     [label |-> "Workplace",
       keywords |-> <<"workplace", "office", "work environment", "employee">>],
     [label |-> "Public space",
       keywords |-> <<"public", "street", "outdoor", "public area">>],
     [label |-> "Educational institution",
       keywords |-> <<"school", "university", "classroom", "campus">>],
     [label |-> "Border crossing",
       keywords |-> <<"border", "airport", "customs", "immigration">>],
     [label |-> "Law enforcement",
       keywords |-> <<"police station", "law enforcement", "investigation">>],
     [label |-> "Court/Legal",
       keywords |-> <<"court", "courthouse", "legal proceeding">>],
     [label |-> "Online service",
       keywords |-> <<"online", "web", "app", "digital", "cloud">>],
     [label |-> "Critical infrastructure",
       keywords |-> <<"power plant", "water treatment", "infrastructure">>] >>

\* _analyze_description, lines 303-313
user_bases ==
  << [label |-> "Vehicle drivers and passengers",
       keywords |-> <<"driver", "passenger", "vehicle occupant">>],
     [label |-> "Patients and healthcare providers",
       keywords |-> <<"patient", "doctor", "nurse", "clinician", "healthcare provider">>],
     [label |-> "General consumers",
       keywords |-> <<"customer", "consumer", "user", "client">>],
     [label |-> "Employees and workers",
       keywords |-> <<"employee", "worker", "staff", "personnel">>],
     [label |-> "Students and educators",
       keywords |-> <<"student", "teacher", "educator", "learner">>],
     [label |-> "Law enforcement officers",
       keywords |-> <<"police", "officer", "law enforcement">>],
     [label |-> "Border control agents",
       keywords |-> <<"border agent", "customs officer", "immigration officer">>],
     [label |-> "Judges and legal professionals",
       keywords |-> <<"judge", "lawyer", "attorney", "legal professional">>],
     [label |-> "General public",
       keywords |-> <<"public", "citizen", "resident", "population">>] >>

(***************************************************************************)
(* EnhancedInformationHarvestingAgent._analyze_description                 *)
(***************************************************************************)

\* sum(1 for kw in keywords if kw in text_lower)
matches(keywords, text_lower) ==
  Cardinality({ i \in 1..Len(keywords) : str_in(keywords[i], text_lower) })

\* sector_loop with >= in place of >: the last of the tied sectors wins
RECURSIVE sector_loop_last_tie(_, _, _, _)
sector_loop_last_tie(text_lower, i, sector, sector_confidence) ==
  IF i > Len(sector_keywords) THEN sector
  ELSE LET n == matches(sector_keywords[i].keywords, text_lower)
       IN  IF n >= sector_confidence /\ n > 0
             THEN sector_loop_last_tie(text_lower, i + 1,
                                       title(sector_keywords[i].label), n)
             ELSE sector_loop_last_tie(text_lower, i + 1, sector,
                                       sector_confidence)

\* the sector loop from entry i on, with the running best (sector, confidence)
RECURSIVE sector_loop(_, _, _, _)
sector_loop(text_lower, i, sector, sector_confidence) ==
  IF i > Len(sector_keywords) THEN sector
  ELSE LET n == matches(sector_keywords[i].keywords, text_lower)
       IN  IF n > sector_confidence
             THEN sector_loop(text_lower, i + 1,
                              title(sector_keywords[i].label), n)
             ELSE sector_loop(text_lower, i + 1, sector, sector_confidence)

\* sector_of with another initial value of the sector
sector_of_unknown(text_lower) == sector_loop(text_lower, 1, "Unknown", 0)

sector_of(text_lower) == sector_loop(text_lower, 1, "General", 0)

\* purpose_of with the first two branches of the chain exchanged
purpose_of_emotion_first(text_lower) ==
  IF str_in("emotion", text_lower) \/ str_in("sentiment", text_lower)
    THEN "emotion recognition"
  ELSE IF str_in("identification", text_lower)
          \/ str_in("identify", text_lower)
    THEN "identification"
  ELSE IF str_in("categorization", text_lower)
          \/ str_in("categorisation", text_lower)
    THEN "categorisation"
  ELSE IF str_in("verification", text_lower)
          \/ str_in("authenticate", text_lower)
    THEN "authentication"
  ELSE None

\* the purpose chain inside the biometric loop
purpose_of(text_lower) ==
  IF str_in("identification", text_lower) \/ str_in("identify", text_lower)
    THEN "identification"
  ELSE IF str_in("emotion", text_lower) \/ str_in("sentiment", text_lower)
    THEN "emotion recognition"
  ELSE IF str_in("categorization", text_lower)
          \/ str_in("categorisation", text_lower)
    THEN "categorisation"
  ELSE IF str_in("verification", text_lower)
          \/ str_in("authenticate", text_lower)
    THEN "authentication"
  ELSE None

\* the biometric loop: it stops at the first type with a keyword present
biometrics_of(text_lower) ==
  IF \E i \in 1..Len(biometric_indicators) :
        any_in(biometric_indicators[i].keywords, text_lower)
    THEN [involved |-> TRUE, purpose |-> purpose_of(text_lower)]
    ELSE [involved |-> FALSE, purpose |-> None]

\* first_hit without the break: the last entry with a keyword present wins
RECURSIVE first_hit_no_break(_, _, _, _)
first_hit_no_break(table, text_lower, i, default) ==
  IF i > Len(table) THEN default
  ELSE IF any_in(table[i].keywords, text_lower)
    THEN first_hit_no_break(table, text_lower, i + 1, table[i].label)
  ELSE first_hit_no_break(table, text_lower, i + 1, default)

\* a loop that assigns the label of the first entry (from i on) with a
\* keyword present and breaks; the default stands when there is none
RECURSIVE first_hit(_, _, _, _)
first_hit(table, text_lower, i, default) ==
  IF i > Len(table) THEN default
  ELSE IF any_in(table[i].keywords, text_lower) THEN table[i].label
  ELSE first_hit(table, text_lower, i + 1, default)

\* all_hits with a break after the first label appended
RECURSIVE all_hits_break(_, _, _, _)
all_hits_break(table, text_lower, i, found) ==
  IF i > Len(table) THEN found
  ELSE IF any_in(table[i].keywords, text_lower)
    THEN Append(found, table[i].label)
  ELSE all_hits_break(table, text_lower, i + 1, found)

\* a loop that appends the label of every entry (from i on) with a keyword
\* present
RECURSIVE all_hits(_, _, _, _)
all_hits(table, text_lower, i, found) ==
  IF i > Len(table) THEN found
  ELSE IF any_in(table[i].keywords, text_lower)
    THEN all_hits(table, text_lower, i + 1, Append(found, table[i].label))
  ELSE all_hits(table, text_lower, i + 1, found)

(***************************************************************************)
(* EnhancedInformationHarvestingAgent._extract_primary_purpose             *)
(***************************************************************************)

\* the characters str.strip() removes
Whitespace == {" ", "\t", "\n", "\r", "\f"}

RECURSIVE lstrip(_)
lstrip(s) ==
  IF s # "" /\ Head(s) \in Whitespace THEN lstrip(Tail(s)) ELSE s

RECURSIVE rstrip(_)
rstrip(s) ==
  IF s # "" /\ SubSeq(s, Len(s), Len(s)) \in Whitespace
    THEN rstrip(SubSeq(s, 1, Len(s) - 1))
    ELSE s

\* str.strip()
strip(s) == rstrip(lstrip(s))

\* s[:n]
prefix(s, n) == IF Len(s) <= n THEN s ELSE SubSeq(s, 1, n)

\* characters i..j of s, the empty string when j < i
slice(s, i, j) == IF j < i THEN "" ELSE SubSeq(s, i, j)

\* str.split(".") from character i on, where a piece starts
RECURSIVE split_loop(_, _, _)
split_loop(s, i, pieces) ==
  LET dots == { j \in i..Len(s) : SubSeq(s, j, j) = "." }
  IN  IF dots = {} THEN Append(pieces, slice(s, i, Len(s)))
      ELSE LET j == CHOOSE d \in dots : \A k \in dots : d <= k
           IN  split_loop(s, j + 1, Append(pieces, slice(s, i, j - 1)))

split(s) == split_loop(s, 1, <<>>)

\* names_or_verbs on the sentence as written, not lower-cased
names_or_verbs_cased(sentence, name) ==
  \/ str_in(lower(name), sentence)
  \/ any_in(<<"uses", "enables", "provides", "helps">>, sentence)

\* the test of the first loop on one sentence
names_or_verbs(sentence, name) ==
  \/ str_in(lower(name), lower(sentence))
  \/ any_in(<<"uses", "enables", "provides", "helps">>, lower(sentence))

_extract_primary_purpose(text, name) ==
  LET sentences == split(text)
      first == { i \in 1..Len(sentences) :
                   /\ names_or_verbs(sentences[i], name)
                   /\ Len(strip(sentences[i])) > 20
                   /\ Len(strip(sentences[i])) < 200 }
      substantial == { i \in 1..Len(sentences) :
                         Len(strip(sentences[i])) > 30 }
      least(S) == CHOOSE i \in S : \A j \in S : i <= j
  IN  IF first # {} THEN strip(sentences[least(first)])
      ELSE IF substantial # {}
        THEN prefix(strip(sentences[least(substantial)]), 150)
      ELSE prefix(text, 150)

\* the dict _analyze_description returns
_analyze_description(full_text, name, company) ==
  LET text_lower == lower(full_text)
      bio == biometrics_of(text_lower)
  IN  [sector |-> sector_of(text_lower),
       primary_purpose |-> _extract_primary_purpose(full_text, name),
       user_base |-> first_hit(user_bases, text_lower, 1, "General public"),
       biometrics_involved |-> bio.involved,
       biometrics_purpose |-> bio.purpose,
       decision_making_role |->
         first_hit(decision_indicators, text_lower, 1, "Informational"),
       high_risk_contexts |-> all_hits(risk_indicators, text_lower, 1, <<>>),
       data_processed |-> all_hits(data_indicators, text_lower, 1, <<>>),
       deployment_context |->
         first_hit(deployment_contexts, text_lower, 1, "General commercial use")]

(***************************************************************************)
(* EnhancedInformationHarvestingAgent.harvest_from_description             *)
(***************************************************************************)

\* the f-string that builds combined_info
combined_info(description, search_info) ==
  description \o "\n\nAdditional Context from Web Search:\n" \o search_info

\* (search_info, sources) is what the search step left: ("", []) when the
\* agent was constructed with enable_search = False
harvest_from_description(name, company, description, search_info, sources) ==
  LET analysis ==
        _analyze_description(combined_info(description, search_info),
                             name, company)
  IN  AISystemProfile(name, company, description, analysis.sector,
                      analysis.primary_purpose, analysis.user_base,
                      analysis.biometrics_involved,
                      analysis.biometrics_purpose,
                      analysis.decision_making_role,
                      analysis.high_risk_contexts, analysis.data_processed,
                      analysis.deployment_context,
                      IF search_info # "" THEN search_info ELSE None,
                      sources)

(***************************************************************************)
(* EnhancedInformationHarvestingAgent._search_for_system                   *)
(*                                                                         *)
(* The search provider is the environment: whether the ddgs package could  *)
(* be imported, whether DDGS() can be opened, and what ddgs.text answers   *)
(* to each query (it raises, or returns a list of result dicts).           *)
(***************************************************************************)

\* dict.get(key, default); dict.get(key) is get(d, key, None)
get(d, key, default) == IF key \in DOMAIN d THEN d[key] ELSE default

\* the two queries, in the order they are sent
search_queries(name, company) ==
  << company \o " " \o name \o " AI system",
     company \o " " \o name \o " use case application" >>

\* the loop over the results of one query, from result i on; acc holds
\* all_results and sources
RECURSIVE result_loop(_, _, _)
result_loop(results, i, acc) ==
  IF i > Len(results) THEN acc
  ELSE LET res == results[i]
       IN  IF ~list_in(get(res, "href", None), acc.sources)
             THEN result_loop(results, i + 1,
                    [all_results |->
                       Append(acc.all_results,
                              [title |-> get(res, "title", ""),
                               snippet |-> get(res, "body", ""),
                               url |-> get(res, "href", "")]),
                     sources |-> Append(acc.sources, get(res, "href", ""))])
             ELSE result_loop(results, i + 1, acc)

\* the loop over the queries with no try around one query: a query that
\* raises ends the whole search in the outer handler
RECURSIVE query_loop_no_inner_try(_, _, _, _)
query_loop_no_inner_try(provider, queries, q, acc) ==
  IF q > Len(queries) THEN acc
  ELSE IF provider.text[q].raises
    THEN [all_results |-> <<>>, sources |-> <<>>]
  ELSE query_loop_no_inner_try(provider, queries, q + 1,
                               result_loop(provider.text[q].results, 1, acc))

\* the loop over the queries, from query q on; provider.text[q] is what
\* ddgs.text does with queries[q]: a query that raises is skipped
\* (except ... continue)
RECURSIVE query_loop(_, _, _, _)
query_loop(provider, queries, q, acc) ==
  IF q > Len(queries) THEN acc
  ELSE IF provider.text[q].raises
    THEN query_loop(provider, queries, q + 1, acc)
  ELSE query_loop(provider, queries, q + 1,
                  result_loop(provider.text[q].results, 1, acc))

\* "\n".join(lines)
RECURSIVE join(_, _)
join(lines, i) ==
  IF i > Len(lines) THEN ""
  ELSE IF i = Len(lines) THEN lines[i]
  ELSE lines[i] \o "\n" \o join(lines, i + 1)

\* the lines of the results that have a snippet, from result i on
RECURSIVE formatted(_, _)
formatted(results, i) ==
  IF i > Len(results) THEN <<>>
  ELSE LET title_ == get(results[i], "title", "Source")
           snippet == get(results[i], "snippet", "")
       IN  (IF snippet # "" THEN <<"- " \o title_ \o ": " \o snippet>>
                            ELSE <<>>)
             \o formatted(results, i + 1)

_format_search_results(results) ==
  IF results = <<>> THEN "" ELSE join(formatted(results, 1), 1)

\* returns <<search_info, sources>>
_search_for_system(provider, name, company, description) ==
  IF ~provider.available THEN <<"", <<>>>>
  ELSE IF ~provider.opens THEN <<"", <<>>>>
  ELSE LET found == query_loop(provider, search_queries(name, company), 1,
                               [all_results |-> <<>>, sources |-> <<>>])
       IN  <<_format_search_results(found.all_results), found.sources>>

(***************************************************************************)
(* RiskLevel                                                               *)
(***************************************************************************)

PROHIBITED == "Prohibited"
HIGH_RISK == "High-Risk"
LOW_RISK == "Low-Risk"
TRANSPARENCY_REQUIREMENTS == "Additional Transparency Requirements"
GPAI_REQUIREMENTS == "GPAI Requirements"
EXCEPTION == "Exception"

RiskLevel ==
  {PROHIBITED, HIGH_RISK, LOW_RISK, TRANSPARENCY_REQUIREMENTS,
   GPAI_REQUIREMENTS, EXCEPTION}

(***************************************************************************)
(* RiskClassificationAgent                                                 *)
(*                                                                         *)
(* `self` is the record of the three accumulators.  Every stage returns    *)
(* the accumulators as it leaves them together with its boolean result.    *)
(***************************************************************************)

\* RiskClassificationAgent.__init__
RiskClassificationAgent ==
  [decision_path |-> <<>>, reasoning |-> <<>>, recommendations |-> <<>>]

\* visit with the label put in front instead of appended
visit_front(self, label) ==
  [self EXCEPT !.decision_path = <<label>> \o @]

visit(self, label) ==
  [self EXCEPT !.decision_path = Append(@, label)]

\* self.reasoning.append(line) done twice over
reason_twice(self, line) ==
  [self EXCEPT !.reasoning = Append(Append(@, line), line)]

reason(self, line) ==
  [self EXCEPT !.reasoning = Append(@, line)]

recommend(self, items) ==
  [self EXCEPT !.recommendations = @ \o items]

returns(self, value) == [self |-> self, ret |-> value]

_check_exceptions(self0, p) ==
  LET self == visit(self0, "Article 2: Scope exceptions")
      description_lower == lower(p.description)
  IN  IF str_in("research", description_lower)
         /\ str_in("scientific", description_lower)
        THEN returns(reason(self,
               "May qualify for scientific research exception (Article 2.6)"),
               TRUE)
      ELSE IF any_in(<<"military", "defence", "defense">>, description_lower)
        THEN returns(reason(self,
               "Military/defence exception applies (Article 2.3)"), TRUE)
      ELSE returns(self, FALSE)

\* _check_prohibited with the social-scoring test ahead of the subliminal one
_check_prohibited_social_first(self0, p) ==
  LET self == visit(self0, "Article 5: Prohibited AI practices")
      description_lower == lower(p.description)
  IN  IF str_in("social scor", description_lower)
        THEN returns(reason(self,
               "PROHIBITED: Social scoring system (Article 5.1c)"), TRUE)
      ELSE IF any_in(<<"manipulate", "subliminal", "exploit vulnerabilities">>,
                     description_lower)
        THEN returns(reason(self,
               "PROHIBITED: Subliminal manipulation (Article 5.1a)"), TRUE)
      ELSE IF /\ p.biometrics_involved
              /\ p.biometrics_purpose = "identification"
              /\ \/ str_in("real-time", description_lower)
                 \/ str_in("live", description_lower)
              /\ str_in("public", lower(p.deployment_context))
        THEN returns(reason(self,
               "PROHIBITED: Real-time remote biometric identification (Article 5.1h)"),
               TRUE)
      ELSE IF /\ p.biometrics_purpose = "emotion recognition"
              /\ \E ctx \in {"Workplace", "Educational assessment"} :
                    list_in(ctx, p.high_risk_context)
        THEN returns(reason(self,
               "PROHIBITED: Emotion recognition in workplace/education (Article 5.1f)"),
               TRUE)
      ELSE returns(self, FALSE)

_check_prohibited(self0, p) ==
  LET self == visit(self0, "Article 5: Prohibited AI practices")
      description_lower == lower(p.description)
  IN  IF any_in(<<"manipulate", "subliminal", "exploit vulnerabilities">>,
                description_lower)
        THEN returns(reason(self,
               "PROHIBITED: Subliminal manipulation (Article 5.1a)"), TRUE)
      ELSE IF str_in("social scor", description_lower)
        THEN returns(reason(self,
               "PROHIBITED: Social scoring system (Article 5.1c)"), TRUE)
      ELSE IF /\ p.biometrics_involved
              /\ p.biometrics_purpose = "identification"
              /\ \/ str_in("real-time", description_lower)
                 \/ str_in("live", description_lower)
              /\ str_in("public", lower(p.deployment_context))
        THEN returns(reason(self,
               "PROHIBITED: Real-time remote biometric identification (Article 5.1h)"),
               TRUE)
      ELSE IF /\ p.biometrics_purpose = "emotion recognition"
              /\ \E ctx \in {"Workplace", "Educational assessment"} :
                    list_in(ctx, p.high_risk_context)
        THEN returns(reason(self,
               "PROHIBITED: Emotion recognition in workplace/education (Article 5.1f)"),
               TRUE)
      ELSE returns(self, FALSE)

general ==
  << "Implement risk management system (Article 9)",
     "Ensure high-quality training data (Article 10)",
     "Maintain technical documentation (Article 11)",
     "Enable logging and traceability (Article 12)",
     "Implement human oversight (Article 14)",
     "Ensure accuracy and robustness (Article 15)",
     "Undergo conformity assessment (Article 43)",
     "Register in EU database (Article 71)" >>

specific ==
  [safety |-> <<"Conduct vehicle safety testing",
                "Implement fail-safe mechanisms">>,
   biometric |-> <<"Strict biometric data access controls",
                   "GDPR compliance">>,
   employment |-> <<"Human-in-the-loop for decisions", "Bias testing">>,
   border_control |-> <<"Data protection for sensitive data",
                        "Appeal mechanisms">>]

\* _add_high_risk_recommendations with the category's items put before the
\* general ones
_add_high_risk_recommendations_extras_first(self, category) ==
  IF category \in DOMAIN specific
    THEN recommend(recommend(self, specific[category]), general)
    ELSE recommend(self, general)

_add_high_risk_recommendations(self, category) ==
  IF category \in DOMAIN specific
    THEN recommend(recommend(self, general), specific[category])
    ELSE recommend(self, general)

\* the chain of category tests of _check_high_risk
annex_iii(self, p) ==
  LET hit(line, category) ==
        returns(_add_high_risk_recommendations(reason(self, line), category),
                TRUE)
  IN  IF /\ p.biometrics_involved
         /\ p.biometrics_purpose \in {"identification", "categorisation"}
        THEN hit("HIGH-RISK: Biometric identification system (Annex III.1)",
                 "biometric")
      ELSE IF list_in("Critical infrastructure", p.high_risk_context)
        THEN hit("HIGH-RISK: Critical infrastructure system (Annex III.2)",
                 "infrastructure")
      ELSE IF \/ list_in("Safety-critical environment", p.high_risk_context)
              \/ list_in("Vehicle operation", p.high_risk_context)
        THEN returns(
               _add_high_risk_recommendations(
                 reason(reason(self,
                   "HIGH-RISK: Safety component in vehicle operation (Annex III.2)"),
                   "System operates in safety-critical context"),
                 "safety"),
               TRUE)
      ELSE IF list_in("Educational assessment", p.high_risk_context)
        THEN hit("HIGH-RISK: Educational assessment system (Annex III.3)",
                 "education")
      ELSE IF list_in("Employment decision", p.high_risk_context)
        THEN hit("HIGH-RISK: Employment decision system (Annex III.4)",
                 "employment")
      ELSE IF \/ list_in("Essential services access", p.high_risk_context)
              \/ list_in("Financial decision", p.high_risk_context)
        THEN hit("HIGH-RISK: Essential services/creditworthiness (Annex III.5)",
                 "essential_services")
      ELSE IF list_in("Law enforcement", p.high_risk_context)
        THEN hit("HIGH-RISK: Law enforcement application (Annex III.6)",
                 "law_enforcement")
      ELSE IF list_in("Border control", p.high_risk_context)
        THEN hit("HIGH-RISK: Border control system (Annex III.7)",
                 "border_control")
      ELSE IF list_in("Justice administration", p.high_risk_context)
        THEN hit("HIGH-RISK: Administration of justice (Annex III.8)",
                 "justice")
      ELSE returns(self, FALSE)

\* _check_high_risk with the employment test moved to the front of the chain
_check_high_risk_employment_first(self0, p) ==
  LET self == visit(self0, "Article 6 & Annex III: High-risk systems")
  IN  IF list_in("Employment decision", p.high_risk_context)
        THEN returns(
               _add_high_risk_recommendations(
                 reason(self,
                   "HIGH-RISK: Employment decision system (Annex III.4)"),
                 "employment"),
               TRUE)
        ELSE annex_iii(self, p)

_check_high_risk(self0, p) ==
  annex_iii(visit(self0, "Article 6 & Annex III: High-risk systems"), p)

\* _check_transparency with a test of the decision-making role in front
_check_transparency_by_role(self0, p) ==
  LET self == visit(self0, "Article 50: Transparency requirements")
      description_lower == lower(p.description)
  IN  IF \/ p.decision_making_role = "Fully Automated Decision"
         \/ any_in(<<"chat", "conversational", "assistant", "interact">>,
                   description_lower)
        THEN returns(recommend(reason(self,
               "TRANSPARENCY: Interactive AI system (Article 50.1)"),
               <<"Disclose AI interaction to users">>), TRUE)
      ELSE IF str_in("generat", description_lower)
        THEN returns(recommend(reason(self,
               "TRANSPARENCY: Generative AI system (Article 50.2)"),
               <<"Label AI-generated content">>), TRUE)
      ELSE returns(self, FALSE)

_check_transparency(self0, p) ==
  LET self == visit(self0, "Article 50: Transparency requirements")
      description_lower == lower(p.description)
  IN  IF any_in(<<"chat", "conversational", "assistant", "interact">>,
                description_lower)
        THEN returns(recommend(reason(self,
               "TRANSPARENCY: Interactive AI system (Article 50.1)"),
               <<"Disclose AI interaction to users">>), TRUE)
      ELSE IF str_in("generat", description_lower)
        THEN returns(recommend(reason(self,
               "TRANSPARENCY: Generative AI system (Article 50.2)"),
               <<"Label AI-generated content">>), TRUE)
      ELSE returns(self, FALSE)

\* articles without the entry of RiskLevel.EXCEPTION
articles_without_exception ==
  [r \in {PROHIBITED, HIGH_RISK, TRANSPARENCY_REQUIREMENTS, LOW_RISK}
     |-> CASE r = PROHIBITED -> <<"Article 5 - Prohibited Practices">>
           [] r = HIGH_RISK -> <<"Article 6 & Annex III",
                                 "Articles 8-15 - Requirements">>
           [] r = TRANSPARENCY_REQUIREMENTS -> <<"Article 50 - Transparency">>
           [] r = LOW_RISK -> <<"Article 69 - Codes of Conduct (voluntary)">>]

articles ==
  [r \in {PROHIBITED, HIGH_RISK, TRANSPARENCY_REQUIREMENTS, LOW_RISK, EXCEPTION}
     |-> CASE r = PROHIBITED -> <<"Article 5 - Prohibited Practices">>
           [] r = HIGH_RISK -> <<"Article 6 & Annex III",
                                 "Articles 8-15 - Requirements">>
           [] r = TRANSPARENCY_REQUIREMENTS -> <<"Article 50 - Transparency">>
           [] r = LOW_RISK -> <<"Article 69 - Codes of Conduct (voluntary)">>
           [] r = EXCEPTION -> <<"Article 2 - Scope exceptions">>]

\* confidence_of with both thresholds one too low
confidence_of_shifted(n) ==
  IF n >= 2 THEN "High" ELSE IF n >= 1 THEN "Medium" ELSE "Low"

\* the conditional expression that sets `confidence`
confidence_of(n) ==
  IF n >= 3 THEN "High" ELSE IF n >= 2 THEN "Medium" ELSE "Low"

_create_result(self, risk_level) ==
  [risk_level |-> risk_level,
   reasoning |-> IF self.reasoning # <<>> THEN self.reasoning
                 ELSE <<"No specific risks identified">>,
   relevant_articles |-> IF risk_level \in DOMAIN articles
                           THEN articles[risk_level] ELSE <<>>,
   decision_path |-> self.decision_path,
   confidence |-> confidence_of(Len(self.reasoning)),
   recommendations |-> IF self.recommendations # <<>> THEN self.recommendations
                       ELSE <<"Monitor regulatory developments">>]

\* reset with the three assignments left out
reset_missing(self) == self

\* the three assignments that open classify
reset(self) ==
  [self EXCEPT !.decision_path = <<>>, !.reasoning = <<>>,
               !.recommendations = <<>>]

\* classify with the Prohibited stage tested before the Exceptions stage
classify_prohibited_first(self0, p) ==
  LET s0 == reset(self0)
      b == _check_prohibited(s0, p)
      e == _check_exceptions(b.self, p)
      h == _check_high_risk(e.self, p)
      t == _check_transparency(h.self, p)
      done(self, level) ==
        [self |-> self, result |-> _create_result(self, level)]
  IN  IF b.ret THEN done(b.self, PROHIBITED)
      ELSE IF e.ret THEN done(e.self, EXCEPTION)
      ELSE IF h.ret THEN done(h.self, HIGH_RISK)
      ELSE IF t.ret THEN done(t.self, TRANSPARENCY_REQUIREMENTS)
      ELSE done(t.self, LOW_RISK)

\* classify: the accumulators as the call leaves them, and the result
classify(self0, p) ==
  LET s0 == reset(self0)
      e == _check_exceptions(s0, p)
      b == _check_prohibited(e.self, p)
      h == _check_high_risk(b.self, p)
      t == _check_transparency(h.self, p)
      done(self, level) ==
        [self |-> self, result |-> _create_result(self, level)]
  IN  IF e.ret THEN done(e.self, EXCEPTION)
      ELSE IF b.ret THEN done(b.self, PROHIBITED)
      ELSE IF h.ret THEN done(h.self, HIGH_RISK)
      ELSE IF t.ret THEN done(t.self, TRANSPARENCY_REQUIREMENTS)
      ELSE done(t.self, LOW_RISK)

(***************************************************************************)
(* The engine's lists as objects.  A Python list is an object: an          *)
(* attribute or a result field holds a reference to it, append and extend  *)
(* change it in place, and `[]` or a list literal makes a new one.  `lists`*)
(* holds the objects made so far, an address being an index into it, and   *)
(* `self` the addresses the engine's three attributes are bound to.        *)
(***************************************************************************)

\* RiskClassificationAgent(): __init__ binds three new empty lists
NewHeap ==
  [lists |-> << <<>>, <<>>, <<>> >>,
   self |-> [decision_path |-> 1, reasoning |-> 2, recommendations |-> 3]]

\* the opening of classify with the three lists emptied in place (clear())
\* instead of rebound
bind_fresh_clear(h) ==
  [h EXCEPT !.lists[h.self.decision_path] = <<>>,
            !.lists[h.self.reasoning] = <<>>,
            !.lists[h.self.recommendations] = <<>>]

\* the three assignments that open classify: each binds the attribute to a
\* new empty list and leaves the list it was bound to as it is
bind_fresh(h) ==
  LET n == Len(h.lists)
  IN  [lists |-> h.lists \o << <<>>, <<>>, <<>> >>,
       self |-> [decision_path |-> n + 1, reasoning |-> n + 2,
                 recommendations |-> n + 3]]

\* the contents of the lists the engine's attributes are bound to
contents(h) ==
  [decision_path |-> h.lists[h.self.decision_path],
   reasoning |-> h.lists[h.self.reasoning],
   recommendations |-> h.lists[h.self.recommendations]]

\* the appends and extends of the stages, made in place on the bound lists:
\* acc is what the lists hold when the stages are done
in_place(h, acc) ==
  [h EXCEPT !.lists[h.self.decision_path] = acc.decision_path,
            !.lists[h.self.reasoning] = acc.reasoning,
            !.lists[h.self.recommendations] = acc.recommendations]

\* the result with the contents of the lists its three list fields refer to
deref(h, r) ==
  [r EXCEPT !.reasoning = h.lists[@], !.decision_path = h.lists[@],
            !.recommendations = h.lists[@]]

\* _create_result on the object graph h, the stages having left acc in the
\* engine's lists and r being the result by value: the graph with a new
\* list for each placeholder, and the result with an address in each of
\* reasoning, decision_path and recommendations (the engine's own list, or
\* the new list of a placeholder)
create_result_on_heap(h, acc, r) ==
  [heap |->
     [h EXCEPT !.lists =
        @ \o (IF acc.reasoning # <<>> THEN <<>> ELSE <<r.reasoning>>)
          \o (IF acc.recommendations # <<>> THEN <<>>
              ELSE <<r.recommendations>>)],
   result |->
     [r EXCEPT
        !.reasoning = IF acc.reasoning # <<>> THEN h.self.reasoning
                      ELSE Len(h.lists) + 1,
        !.decision_path = h.self.decision_path,
        !.recommendations =
          IF acc.recommendations # <<>> THEN h.self.recommendations
          ELSE Len(h.lists) + (IF acc.reasoning # <<>> THEN 1 ELSE 2)]]

\* the stages and _create_result on the graph h whose lists classify has
\* just bound, c being what classify computes from their contents
stages_on_heap(h, c) ==
  create_result_on_heap(in_place(h, c.self), c.self, c.result)

\* classify on the object graph: the graph after the call and the result
\* with its addresses
classify_on_heap(h0, p) ==
  stages_on_heap(bind_fresh(h0), classify(contents(bind_fresh(h0)), p))

(***************************************************************************)
(* The inputs: profiles a caller constructs, descriptions it submits       *)
(***************************************************************************)

MaxCalls == 2       \* classify calls on one engine
MaxFragments == 2   \* fragments concatenated into a constructed description
MaxContexts == 2    \* labels in a constructed high_risk_context
MaxWords == 2       \* fragments concatenated into a harvested description

\* the concatenation of the fragments whose indices are in S, in index order
RECURSIVE concat_fragments(_, _, _)
concat_fragments(frags, S, i) ==
  IF i > Len(frags) THEN ""
  ELSE (IF i \in S THEN frags[i] ELSE "") \o concat_fragments(frags, S, i + 1)

\* the texts made of at most n of the fragments
Texts(frags, n) ==
  { concat_fragments(frags, S, 1) :
      S \in { T \in SUBSET (1..Len(frags)) : Cardinality(T) <= n } }

\* Pieces of description text; each carries (in mixed case) a keyword that a
\* stage of the rule chain tests.
DescriptionFragments ==
  << "Scientific ", "research ", "Military ", "subliminal ",
     "Social Scoring ", "live ", "Chatbot ", "generative " >>

Descriptions == Texts(DescriptionFragments, MaxFragments)

\* labels a constructed high_risk_context is drawn from: the labels of the
\* harvester's taxonomy and "Workplace", which the Prohibited stage tests
ContextLabels ==
  << "Safety-critical environment", "Vehicle operation", "Medical decision",
     "Financial decision", "Law enforcement", "Employment decision",
     "Educational assessment", "Border control", "Justice administration",
     "Essential services access", "Critical infrastructure", "Workplace" >>

\* the sub-list of labels whose indices are in S, in index order
RECURSIVE sublist(_, _, _)
sublist(labels, S, i) ==
  IF i > Len(labels) THEN <<>>
  ELSE (IF i \in S THEN <<labels[i]>> ELSE <<>>) \o sublist(labels, S, i + 1)

ContextLists ==
  { sublist(ContextLabels, S, 1) :
      S \in { T \in SUBSET (1..Len(ContextLabels)) :
                Cardinality(T) <= MaxContexts } }

BiometricsPurposes ==
  {None, "identification", "emotion recognition", "categorisation",
   "authentication"}

DeploymentContexts == {"General commercial use", "Public space"}

\* a constructed profile; the fields classify never reads are fixed
Constructed(d, bi, bp, hrc, dc) ==
  AISystemProfile("System", "Company", d, "General", "", "General public",
                  bi, bp, "Informational", hrc, <<>>, dc, None, <<>>)

\* every description, with a few combinations of the other fields
Shapes ==
  { <<FALSE, None, <<>>, "General commercial use">>,
    <<TRUE, "identification", <<>>, "Public space">>,
    <<FALSE, None, <<"Vehicle operation", "Employment decision">>,
      "General commercial use">> }

SequenceProfiles ==
  { Constructed(d, sh[1], sh[2], sh[3], sh[4]) :
      d \in Descriptions, sh \in Shapes }

\* every combination of the other fields, with the descriptions of at most
\* one fragment
WideProfiles ==
  { Constructed(d, bi, bp, hrc, dc) :
      d \in Texts(DescriptionFragments, 1), bi \in BOOLEAN,
      bp \in BiometricsPurposes, hrc \in ContextLists,
      dc \in DeploymentContexts }

Profiles == WideProfiles \cup SequenceProfiles

\* Pieces of the descriptions submitted to the harvester.
Words ==
  << "Driver GPS ", "hospital ", "diagnosis ", "Loan ", "school ",
     "university student ", "scarce ", "fingerprint scan ", "photo filter ",
     "Police ", "Border visa ", "identify ", "Emotion recognition ",
     "workplace employee " >>

\* the examples of the "Example Use Cases" tab of the web form
examples ==
  <<
     [name |-> "MBUX Virtual Assistant",
      company |-> "Mercedes-Benz",
      description |->
        "An AI-powered virtual assistant that enables natural conversations with drivers, providing personalized answers for navigation and points of interest while the vehicle is in operation.",
      expected |-> "High-Risk (Safety component in vehicle)"],
     [name |-> "AI Recruitment Tool",
      company |-> "HireTech Inc",
      description |->
        "An AI system that screens job applications, ranks candidates based on resume analysis, and recommends top candidates to hiring managers for interview selection.",
      expected |-> "High-Risk (Employment decisions)"],
     [name |-> "Customer Service Chatbot",
      company |-> "ShopEasy",
      description |->
        "A conversational AI chatbot that helps customers find products, track orders, and answer frequently asked questions on our e-commerce website.",
      expected |-> "Transparency Requirements (Interactive AI)"],
     [name |-> "Medical Diagnosis Assistant",
      company |-> "MedAI Solutions",
      description |->
        "An AI system that analyzes patient symptoms, medical history, and test results to suggest potential diagnoses and treatment options for physicians to review.",
      expected |-> "High-Risk (Medical decision support)"],
     [name |-> "Social Media Filter",
      company |-> "PhotoApp",
      description |->
        "An AI-powered image filter that enhances photos, applies artistic effects, and removes blemishes for personal social media posts.",
      expected |-> "Low-Risk (Personal use)"]
  >>

\* what the form submits for an example: its name, company and description
ExampleInputs ==
  { [name |-> examples[i].name, company |-> examples[i].company,
     description |-> examples[i].description] : i \in 1..Len(examples) }

\* submissions with an empty name and company and a description shorter
\* than the 50 characters the web form asks for
EdgeInputs ==
  { [name |-> "", company |-> "", description |-> d] :
      d \in {"", "x", ".", "It helps. Uses AI."} }

Inputs ==
  { [name |-> "System", company |-> "Company", description |-> d] :
      d \in Texts(Words, MaxWords) }
  \cup ExampleInputs
  \cup EdgeInputs

MaxSentences == 2   \* fragments concatenated into a text for
                    \* _extract_primary_purpose

\* Sentences, each with its full stop: too short; over 30 characters with
\* neither the name nor a verb of the list; with a verb; over 150
\* characters with no verb; over 200 characters with a verb; a capitalised
\* verb in too short a sentence; the name in another case; and a tail with
\* no full stop.
Sentences ==
  << " Short one.",
     " This text has no verb of the list at all.",
     " It helps people find a route.",
     " A very long sentence with no listed verb goes on and on about maps and roads and towns and hills and lakes and woods and fields and rivers and bridges and more.",
     " The assistant provides answers about maps and roads and towns and hills and lakes and woods and fields and rivers and bridges and tunnels and ferries and harbours and airports and stations and stops and more.",
     " Uses AI.",
     " The SYSTEM works for all people.",
     " and a tail " >>

PurposeInputs ==
  { [name |-> n, text |-> t] :
      n \in {"System", "", "Zed"}, t \in Texts(Sentences, MaxSentences) }

(***************************************************************************)
(* The search providers a harvester may meet                               *)
(***************************************************************************)

MaxResults == 2     \* results ddgs.text returns for one query

\* result dicts: two with the same URL, and one with neither title nor URL
SearchResults ==
  { [title |-> "Acme", body |-> "police camera", href |-> "https://a.example"],
    [title |-> "Mirror", body |-> "hospital", href |-> "https://a.example"],
    [body |-> "school exam"] }

RECURSIVE ResultLists(_)
ResultLists(n) ==
  IF n = 0 THEN {<<>>}
  ELSE ResultLists(n - 1)
         \cup { Append(l, r) : l \in { k \in ResultLists(n - 1) : Len(k) = n - 1 },
                              r \in SearchResults }

\* what ddgs.text does with one query
Answers ==
  {[raises |-> TRUE, results |-> <<>>]}
    \cup { [raises |-> FALSE, results |-> l] : l \in ResultLists(MaxResults) }

\* `from ddgs import DDGS` failed: SEARCH_AVAILABLE is False
NotInstalled == [available |-> FALSE, opens |-> FALSE, text |-> <<>>]

\* DDGS() raises
CannotOpen == [available |-> TRUE, opens |-> FALSE, text |-> <<>>]

Providers ==
  {NotInstalled, CannotOpen}
    \cup { [available |-> TRUE, opens |-> TRUE, text |-> <<a, b>>] :
             a \in Answers, b \in Answers }

SearchInputs ==
  { [name |-> "System", company |-> "Company", description |-> d] :
      d \in {"", "photo filter "} }

(***************************************************************************)
(* The engine driven by a caller                                           *)
(***************************************************************************)

self_now ==
  [decision_path |-> decision_path, reasoning |-> reasoning,
   recommendations |-> recommendations]

\* a RiskClassificationAgent has been constructed
NewEngine ==
  /\ decision_path = RiskClassificationAgent.decision_path
  /\ reasoning = RiskClassificationAgent.reasoning
  /\ recommendations = RiskClassificationAgent.recommendations
  /\ result = NoResult
  /\ calls = 0
  /\ heap = NewHeap
  /\ returned = <<>>

\* result = classifier.classify(p)
Classify(p) ==
  /\ calls < MaxCalls
  /\ LET c == classify(self_now, p)
     IN  /\ profile' = p
         /\ decision_path' = c.self.decision_path
         /\ reasoning' = c.self.reasoning
         /\ recommendations' = c.self.recommendations
         /\ result' = c.result
  /\ calls' = calls + 1
  /\ UNCHANGED <<input, enable_search, ddgs, purpose, heap, returned>>

\* profile = harvester.harvest_from_description(...): the search step, when
\* enabled, then the analysis of the combined text
Harvest ==
  /\ input # NoInput
  /\ profile = NoProfile
  /\ LET found == IF enable_search
                    THEN _search_for_system(ddgs, input.name, input.company,
                                            input.description)
                    ELSE <<"", <<>>>>
     IN  profile' = harvest_from_description(input.name, input.company,
                                             input.description,
                                             found[1], found[2])
  /\ UNCHANGED <<input, decision_path, reasoning, recommendations, result,
                 calls, enable_search, ddgs, purpose, heap, returned>>

\* EnhancedInformationHarvestingAgent(enable_search=False): no provider is
\* reached
SearchDisabled ==
  enable_search = FALSE /\ ddgs = NotInstalled /\ purpose = NoPurpose

\* Any sequence of classify calls on one engine.
Init == input = NoInput /\ profile = NoProfile /\ NewEngine /\ SearchDisabled

Next == \E p \in SequenceProfiles : Classify(p)

Spec == Init /\ [][Next]_vars

\* The caller holds one constructed profile and classifies it, repeatedly.
InitProfile ==
  input = NoInput /\ profile \in Profiles /\ NewEngine /\ SearchDisabled

NextProfile == Classify(profile)

SpecProfile == InitProfile /\ [][NextProfile]_vars

\* The pipeline of the web form with the search box unticked: harvest a
\* profile from the submitted description, then classify it.
InitHarvest ==
  input \in Inputs /\ profile = NoProfile /\ NewEngine /\ SearchDisabled

ClassifyHarvested == profile # NoProfile /\ Classify(profile)

NextHarvest == Harvest \/ ClassifyHarvested

SpecHarvest == InitHarvest /\ [][NextHarvest]_vars

\* The pipeline of __main__ (enable_search=True): the same two steps, with
\* a provider that may be missing, fail to open, or raise on a query.
InitSearch ==
  /\ input \in SearchInputs
  /\ profile = NoProfile
  /\ NewEngine
  /\ enable_search = TRUE
  /\ ddgs \in Providers
  /\ purpose = NoPurpose

SpecSearch == InitSearch /\ [][NextHarvest]_vars

\* _extract_primary_purpose called on its own with a text and a name.
ExtractPrimaryPurpose ==
  /\ purpose = NoPurpose
  /\ "text" \in DOMAIN input
  /\ purpose' = [returned |-> _extract_primary_purpose(input.text, input.name)]
  /\ UNCHANGED <<input, profile, decision_path, reasoning, recommendations,
                 result, calls, enable_search, ddgs, heap, returned>>

InitPurpose ==
  /\ input \in PurposeInputs
  /\ profile = NoProfile
  /\ NewEngine
  /\ SearchDisabled

NextPurpose == ExtractPrimaryPurpose

SpecPurpose == InitPurpose /\ [][NextPurpose]_vars

\* the caller takes the result c.result of a call that left the graph
\* c.heap; p is the profile it gave, which no stage assigns to
HandOver(c, p) ==
  /\ heap' = c.heap
  /\ returned' = Append(returned,
                        [result |-> c.result,
                         held |-> deref(c.heap, c.result),
                         given |-> p])
  /\ profile' = p
  /\ decision_path' = contents(c.heap).decision_path
  /\ reasoning' = contents(c.heap).reasoning
  /\ recommendations' = contents(c.heap).recommendations
  /\ result' = deref(c.heap, c.result)

\* result = classifier.classify(p), the caller keeping every result it was
\* handed: `returned` lists them with what each held when it was returned
\* and the profile that was given.
ClassifyOnHeap(p) ==
  /\ calls < MaxCalls
  /\ HandOver(classify_on_heap(heap, p), p)
  /\ calls' = calls + 1
  /\ UNCHANGED <<input, enable_search, ddgs, purpose>>

\* Any sequence of classify calls on one engine, over ten profiles that
\* between them reach every level, with and without reasoning lines and
\* recommendations of their own.
HeapProfiles ==
  { Constructed(d, FALSE, None, hrc, "General commercial use") :
      d \in {"", "Military ", "Social Scoring ", "Chatbot ", "generative "},
      hrc \in {<<>>, <<"Vehicle operation", "Employment decision">>} }

NextHeap == \E p \in HeapProfiles : ClassifyOnHeap(p)

SpecHeap == Init /\ [][NextHeap]_vars

\* The nine fields of a profile other than description,
\* biometrics_involved, biometrics_purpose, high_risk_context and
\* deployment_context: those of a constructed profile, and others.
OtherFields ==
  { [name |-> n, company |-> n, sector |-> o.sector,
     primary_purpose |-> o.primary_purpose, user_base |-> o.user_base,
     decision_making_role |-> r, data_processed |-> dp,
     additional_info |-> o.additional_info,
     search_sources |-> o.search_sources] :
      n \in {"System", "Military Chatbot"},
      r \in {"Informational", "Fully Automated Decision"},
      dp \in {<<>>, <<"Biometric data", "Health data">>},
      o \in { [sector |-> "General", primary_purpose |-> "",
               user_base |-> "General public", additional_info |-> None,
               search_sources |-> <<>>],
              [sector |-> "Law Enforcement",
               primary_purpose |-> "Social scoring of workers in public",
               user_base |-> "Employees",
               additional_info |-> "- Acme: police camera",
               search_sources |-> <<"https://a.example">>] } }

\* the five fields of p with the other nine taken from o
with_others(p, o) ==
  AISystemProfile(o.name, o.company, p.description, o.sector,
                  o.primary_purpose, o.user_base, p.biometrics_involved,
                  p.biometrics_purpose, o.decision_making_role,
                  p.high_risk_context, o.data_processed, p.deployment_context,
                  o.additional_info, o.search_sources)

\* profiles that differ in every field: the shapes of SequenceProfiles on
\* a few descriptions, each with every choice of the other nine fields
FieldProfiles ==
  { with_others(Constructed(d, sh[1], sh[2], sh[3], sh[4]), o) :
      d \in {"", "Military ", "Social Scoring ", "live ", "Chatbot "},
      sh \in Shapes, o \in OtherFields }

\* The caller holds one profile of FieldProfiles and classifies it.
InitFields ==
  input = NoInput /\ profile \in FieldProfiles /\ NewEngine /\ SearchDisabled

SpecFields == InitFields /\ [][NextProfile]_vars

\* Pieces of descriptions that speak of how the system decides: the three
\* keywords of "Fully Automated Decision" (in mixed case), a keyword of
\* each other label, and a piece with no keyword of the taxonomy.
RoleWords ==
  << "Automated decision ", "AUTOMATIC DECISION ",
     "Runs without human intervention ", "approve ", "suggest ", "display ",
     "photo filter ", "It helps " >>

RoleInputs ==
  { [name |-> "System", company |-> "Company", description |-> d] :
      d \in Texts(RoleWords, MaxWords) }

\* The pipeline of the web form on the descriptions of RoleInputs.
InitRole ==
  input \in RoleInputs /\ profile = NoProfile /\ NewEngine /\ SearchDisabled

SpecRole == InitRole /\ [][NextHarvest]_vars

\* The options of the form's "Sector (Optional)" selectbox; the first is
\* the default selection.
sector_options ==
  <<"Auto-detect", "Automotive", "Healthcare", "Financial Services",
    "Education", "Law Enforcement", "Employment", "Other">>

\* the validation of a submitted form: every required field is filled in
\* and the description has at least 50 characters
valid(form) ==
  /\ ~(form.company = "" \/ form.system_name = "" \/ form.description = "")
  /\ ~(Len(form.description) < 50)

\* What a user may submit: a required field left empty, a description that
\* is empty or too short, and the five examples of the form's own page,
\* each with every selection of the sector box.
FormInputs ==
  { [company |-> c, system_name |-> "System", sector |-> sector_options[s],
     description |-> d] :
      c \in {"", "Company"},
      s \in 1..Len(sector_options),
      d \in {"", "photo filter "}
              \cup { examples[i].description : i \in 1..Len(examples) } }

\* The handler of the form's submit button: validate; then build a
\* harvester with the ticked search option, harvest the profile, build a
\* classifier and classify the profile.  A rejected submission shows a
\* message and builds nothing.
Submit ==
  /\ "sector" \in DOMAIN input
  /\ calls < MaxCalls
  /\ IF valid(input)
       THEN LET found == IF enable_search
                           THEN _search_for_system(ddgs, input.system_name,
                                                   input.company,
                                                   input.description)
                           ELSE <<"", <<>>>>
                harvested == harvest_from_description(input.system_name,
                                                      input.company,
                                                      input.description,
                                                      found[1], found[2])
                c == classify(RiskClassificationAgent, harvested)
            IN  /\ profile' = harvested
                /\ decision_path' = c.self.decision_path
                /\ reasoning' = c.self.reasoning
                /\ recommendations' = c.self.recommendations
                /\ result' = c.result
       ELSE UNCHANGED <<profile, decision_path, reasoning, recommendations,
                        result>>
  /\ calls' = calls + 1
  /\ UNCHANGED <<input, enable_search, ddgs, purpose, heap, returned>>

\* The form as the user filled it in, the search box ticked or not, on a
\* host whose search provider fails to open.
InitForm ==
  /\ input \in FormInputs
  /\ profile = NoProfile
  /\ NewEngine
  /\ enable_search \in BOOLEAN
  /\ ddgs = CannotOpen
  /\ purpose = NoPurpose

NextForm == Submit

SpecForm == InitForm /\ [][NextForm]_vars

(***************************************************************************)
(* Properties of classify                                                  *)
(***************************************************************************)

\* the value of a stage predicate on a profile
StageTrue(k, p) ==
  CASE k = 1 -> _check_exceptions(RiskClassificationAgent, p).ret
    [] k = 2 -> _check_prohibited(RiskClassificationAgent, p).ret
    [] k = 3 -> _check_high_risk(RiskClassificationAgent, p).ret
    [] k = 4 -> _check_transparency(RiskClassificationAgent, p).ret

StageLevels ==
  <<EXCEPTION, PROHIBITED, HIGH_RISK, TRANSPARENCY_REQUIREMENTS>>

\* the first stage whose predicate is true, 5 when there is none
FirstTrueStage(p) ==
  IF \E k \in 1..4 : StageTrue(k, p)
    THEN CHOOSE k \in 1..4 :
           StageTrue(k, p) /\ \A j \in 1..(k - 1) : ~StageTrue(j, p)
    ELSE 5

\* C1: classify tests the stages in the order Exceptions, Prohibited,
\* High-Risk, Transparency; the result has the level of the first stage whose
\* predicate is true and Low-Risk when none is; no stage after that one is
\* evaluated (it leaves no label in decision_path); and a description with
\* both "military" and "social scor" is classified Exception.
C1_FirstTrueStageDecides ==
  result # NoResult =>
    LET k == FirstTrueStage(profile)
        d == lower(profile.description)
    IN  /\ result.risk_level = IF k = 5 THEN LOW_RISK ELSE StageLevels[k]
        /\ Len(result.decision_path) = IF k = 5 THEN 4 ELSE k
        /\ (str_in("military", d) /\ str_in("social scor", d))
             => result.risk_level = EXCEPTION

\* a profile with an Exception and a Prohibited keyword has been classified
C1_Witness ==
  /\ result # NoResult
  /\ str_in("military", lower(profile.description))
  /\ str_in("social scor", lower(profile.description))
  /\ StageTrue(2, profile)
  /\ result.risk_level = EXCEPTION

\* C2: after any sequence of classify calls on one engine, the result of the
\* last call, and the accumulators it leaves, are those a newly constructed
\* engine gives for the same profile: nothing is carried over from the
\* calls before.
C2_ResultOfNewEngine ==
  result # NoResult =>
    LET fresh == classify(RiskClassificationAgent, profile)
    IN  /\ result = fresh.result
        /\ self_now = fresh.self

\* a second call on the same engine has returned a result with reasoning
\* and recommendations of its own
C2_Witness ==
  /\ calls >= 2
  /\ result.risk_level = HIGH_RISK
  /\ Len(reasoning) = 2
  /\ Len(recommendations) = 10

\* the four stage labels, in the order of the stages
StageLabels ==
  << "Article 2: Scope exceptions", "Article 5: Prohibited AI practices",
     "Article 6 & Annex III: High-risk systems",
     "Article 50: Transparency requirements" >>

\* C3: decision_path is a prefix of the four stage labels, of length 1 for
\* Exception, 2 for Prohibited, 3 for High-Risk and 4 for Transparency and
\* for Low-Risk (the fallback adds no entry).
C3_DecisionPathPrefix ==
  result # NoResult =>
    LET n == Len(result.decision_path)
    IN  /\ n \in 1..4
        /\ result.decision_path = SubSeq(StageLabels, 1, n)
        /\ result.risk_level = EXCEPTION => n = 1
        /\ result.risk_level = PROHIBITED => n = 2
        /\ result.risk_level = HIGH_RISK => n = 3
        /\ result.risk_level = TRANSPARENCY_REQUIREMENTS => n = 4
        /\ result.risk_level = LOW_RISK => n = 4
        /\ result.risk_level \in
             {EXCEPTION, PROHIBITED, HIGH_RISK, TRANSPARENCY_REQUIREMENTS,
              LOW_RISK}

\* a Low-Risk result, reached through all four stages
C3_Witness ==
  /\ result # NoResult
  /\ result.risk_level = LOW_RISK
  /\ result.decision_path = StageLabels

\* C4: confidence is High, Medium or Low as the number of reasoning lines
\* the stages accumulated is >= 3, exactly 2, or below 2; the placeholder is
\* substituted after the count, so a placeholder result has confidence Low;
\* the reasoning of a result is never empty.
C4_ConfidenceFromAccumulatedLines ==
  result # NoResult =>
    /\ Len(reasoning) >= 3 => result.confidence = "High"
    /\ Len(reasoning) = 2 => result.confidence = "Medium"
    /\ Len(reasoning) < 2 => result.confidence = "Low"
    /\ result.reasoning = <<"No specific risks identified">>
         => Len(reasoning) = 0 /\ result.confidence = "Low"
    /\ result.reasoning # <<>>
    /\ reasoning # <<>> => result.reasoning = reasoning

\* a placeholder result, and so no accumulated line
C4_Witness ==
  /\ result # NoResult
  /\ reasoning = <<>>
  /\ result.reasoning = <<"No specific risks identified">>
  /\ result.confidence = "Low"

\* label is one of the profile's high-risk contexts
Has(p, label) ==
  \E i \in DOMAIN p.high_risk_context : p.high_risk_context[i] = label

\* the nine High-Risk categories in their priority order: the key of the
\* category, the condition on the profile, and the reasoning lines
CategoryKeys ==
  << "biometric", "infrastructure", "safety", "education", "employment",
     "essential_services", "law_enforcement", "border_control", "justice" >>

CategoryHolds(k, p) ==
  CASE k = 1 -> /\ p.biometrics_involved
                /\ p.biometrics_purpose \in {"identification", "categorisation"}
    [] k = 2 -> Has(p, "Critical infrastructure")
    [] k = 3 -> Has(p, "Safety-critical environment")
                  \/ Has(p, "Vehicle operation")
    [] k = 4 -> Has(p, "Educational assessment")
    [] k = 5 -> Has(p, "Employment decision")
    [] k = 6 -> Has(p, "Essential services access")
                  \/ Has(p, "Financial decision")
    [] k = 7 -> Has(p, "Law enforcement")
    [] k = 8 -> Has(p, "Border control")
    [] k = 9 -> Has(p, "Justice administration")

CategoryLines ==
  << <<"HIGH-RISK: Biometric identification system (Annex III.1)">>,
     <<"HIGH-RISK: Critical infrastructure system (Annex III.2)">>,
     <<"HIGH-RISK: Safety component in vehicle operation (Annex III.2)",
       "System operates in safety-critical context">>,
     <<"HIGH-RISK: Educational assessment system (Annex III.3)">>,
     <<"HIGH-RISK: Employment decision system (Annex III.4)">>,
     <<"HIGH-RISK: Essential services/creditworthiness (Annex III.5)">>,
     <<"HIGH-RISK: Law enforcement application (Annex III.6)">>,
     <<"HIGH-RISK: Border control system (Annex III.7)">>,
     <<"HIGH-RISK: Administration of justice (Annex III.8)">> >>

\* the first category that holds, 0 when none does
FirstCategory(p) ==
  IF \E k \in 1..9 : CategoryHolds(k, p)
    THEN CHOOSE k \in 1..9 :
           CategoryHolds(k, p) /\ \A j \in 1..(k - 1) : ~CategoryHolds(j, p)
    ELSE 0

\* line is one of the reasoning lines of the result
Reasons(line) ==
  \E i \in DOMAIN result.reasoning : result.reasoning[i] = line

\* C5: when the High-Risk stage is evaluated, the reasoning of the result
\* is that of the first category, in the priority order, that the profile
\* matches, and of no other; with "Vehicle operation" and "Employment
\* decision" both present (and no biometric or critical-infrastructure
\* match) it is the two safety/vehicle lines, and the employment line is
\* never in the reasoning.
C5_FirstCategoryOnly ==
  result # NoResult =>
    LET k == FirstCategory(profile)
        both == /\ Has(profile, "Vehicle operation")
                /\ Has(profile, "Employment decision")
                /\ ~CategoryHolds(1, profile)
                /\ ~CategoryHolds(2, profile)
    IN  /\ Len(result.decision_path) >= 3 =>
             /\ (k # 0) = (result.risk_level = HIGH_RISK)
             /\ k # 0 => result.reasoning = CategoryLines[k]
             /\ both => result.reasoning = CategoryLines[3]
        /\ both => ~Reasons(CategoryLines[5][1])

\* a profile with both contexts has gone through the High-Risk stage
C5_Witness ==
  /\ result # NoResult
  /\ Has(profile, "Vehicle operation")
  /\ Has(profile, "Employment decision")
  /\ ~CategoryHolds(1, profile)
  /\ ~CategoryHolds(2, profile)
  /\ result.risk_level = HIGH_RISK
  /\ result.reasoning = CategoryLines[3]

\* C6: the recommendations of a High-Risk result are the eight general
\* items followed by the items of the first matching category (two for
\* safety, biometric, employment and border_control, none for the others);
\* those of a Transparency result are one of the two disclosure items; and
\* they are ["Monitor regulatory developments"] when no stage added one, as
\* in every Exception, Prohibited and Low-Risk result.
C6_Recommendations ==
  result # NoResult =>
    LET recs == result.recommendations
        k == FirstCategory(profile)
        extras == IF CategoryKeys[k] \in
                       {"safety", "biometric", "employment", "border_control"}
                    THEN specific[CategoryKeys[k]] ELSE <<>>
    IN  /\ result.risk_level = HIGH_RISK =>
             /\ Len(general) = 8
             /\ recs = general \o extras
             /\ Len(recs) = IF extras = <<>> THEN 8 ELSE 10
        /\ result.risk_level = TRANSPARENCY_REQUIREMENTS =>
             \/ recs = <<"Disclose AI interaction to users">>
             \/ recs = <<"Label AI-generated content">>
        /\ result.risk_level \in {EXCEPTION, PROHIBITED, LOW_RISK} =>
             /\ recommendations = <<>>
             /\ recs = <<"Monitor regulatory developments">>
        /\ recommendations = <<>> =>
             recs = <<"Monitor regulatory developments">>

\* a High-Risk result with the items of its category after the general ones
C6_Witness ==
  /\ result # NoResult
  /\ result.risk_level = HIGH_RISK
  /\ Len(result.recommendations) = 10
  /\ SubSeq(result.recommendations, 9, 10) = specific.border_control

\* the static table of section 6 of the specification
ArticlesOf(level) ==
  CASE level = PROHIBITED -> <<"Article 5 - Prohibited Practices">>
    [] level = HIGH_RISK ->
         <<"Article 6 & Annex III", "Articles 8-15 - Requirements">>
    [] level = TRANSPARENCY_REQUIREMENTS -> <<"Article 50 - Transparency">>
    [] level = LOW_RISK -> <<"Article 69 - Codes of Conduct (voluntary)">>
    [] level = EXCEPTION -> <<"Article 2 - Scope exceptions">>
    [] OTHER -> <<>>

\* C7: relevant_articles is the entry of the static table for the risk
\* level of the result; the level is never GPAI Requirements, so the list is
\* never empty.
C7_ArticlesByLevel ==
  result # NoResult =>
    /\ result.relevant_articles = ArticlesOf(result.risk_level)
    /\ result.risk_level # GPAI_REQUIREMENTS
    /\ result.relevant_articles # <<>>

\* an Exception result with its article
C7_Witness ==
  /\ result # NoResult
  /\ result.risk_level = EXCEPTION
  /\ result.relevant_articles = <<"Article 2 - Scope exceptions">>

(***************************************************************************)
(* Properties of the harvested profile                                     *)
(***************************************************************************)

\* the lower-cased corpus the taxonomies were matched against
Corpus == lower(combined_info(input.description, ""))

\* the keywords of entry i of a taxonomy that occur in the corpus
Present(table, i) ==
  LET corpus == Corpus
  IN  { kw \in { table[i].keywords[n] : n \in 1..Len(table[i].keywords) } :
          str_in(kw, corpus) }

\* the sector labels as a profile shows them, in declaration order
SectorNames ==
  << "Automotive", "Healthcare", "Financial", "Education", "Law Enforcement",
     "Employment", "Critical Infrastructure", "Border Control", "Justice" >>

\* the greatest number of keywords of one sector present in the corpus
BestCount ==
  CHOOSE n \in 0..6 :
    /\ \A i \in 1..9 : Cardinality(Present(sector_keywords, i)) <= n
    /\ n > 0 => \E i \in 1..9 : Cardinality(Present(sector_keywords, i)) = n

\* C8: the sector is the label with the greatest number of distinct
\* keywords present in the lower-cased corpus, the earliest-declared one
\* among those tied for it, and "General" exactly when no sector keyword
\* occurs.
C8_SectorArgmax ==
  profile # NoProfile =>
    LET count(i) == Cardinality(Present(sector_keywords, i))
    IN  /\ Len(sector_keywords) = 9
        /\ (profile.sector = "General") = (\A i \in 1..9 : count(i) = 0)
        /\ profile.sector # "General" =>
             \E i \in 1..9 :
               /\ profile.sector = SectorNames[i]
               /\ count(i) = BestCount
               /\ \A j \in 1..(i - 1) : count(j) < count(i)

\* two sectors are tied for the greatest count and the earlier one is the
\* profile's sector
C8_Witness ==
  /\ profile # NoProfile
  /\ \E i, j \in 1..9 :
       /\ i < j
       /\ Cardinality(Present(sector_keywords, i)) = BestCount
       /\ Cardinality(Present(sector_keywords, j)) = BestCount
       /\ BestCount > 0
       /\ profile.sector = SectorNames[i]

\* list holds exactly the labels of the taxonomy with a keyword in the
\* corpus, each once, in the order of the taxonomy
ExactlyTheHits(list, table) ==
  /\ \A a \in 1..Len(list) : \E i \in 1..Len(table) : list[a] = table[i].label
  /\ \A i \in 1..Len(table) :
       (\E a \in 1..Len(list) : list[a] = table[i].label)
         = (Present(table, i) # {})
  /\ \A a, b \in 1..Len(list) :
       a < b => \E i, j \in 1..Len(table) :
                  i < j /\ list[a] = table[i].label /\ list[b] = table[j].label
  /\ \A a, b \in 1..Len(list) : a # b => list[a] # list[b]

\* C9: high_risk_context and data_processed hold exactly the labels of
\* their taxonomy (11 and 9 labels) that have a keyword in the lower-cased
\* corpus, each label once, in declaration order; a match of one label does
\* not suppress another.
C9_AllHitsInOrder ==
  profile # NoProfile =>
    /\ Len(risk_indicators) = 11
    /\ Len(data_indicators) = 9
    /\ ExactlyTheHits(profile.high_risk_context, risk_indicators)
    /\ ExactlyTheHits(profile.data_processed, data_indicators)

\* a profile with two high-risk contexts and two data types
C9_Witness ==
  /\ profile # NoProfile
  /\ Len(profile.high_risk_context) >= 2
  /\ Len(profile.data_processed) >= 2

\* C10 as stated: a corpus with "driver" and "hospital" yields both
\* "Vehicle operation" and "Medical decision".
C10_DriverAndHospital ==
  (profile # NoProfile /\ str_in("driver", Corpus) /\ str_in("hospital", Corpus))
    => Has(profile, "Vehicle operation") /\ Has(profile, "Medical decision")

\* C10, amended: a corpus with "driver" and "hospital" yields "Vehicle
\* operation"; "hospital" is no keyword of "Medical decision", which is in
\* the list exactly when one of diagnosis, treatment, medical decision,
\* clinical decision, patient care occurs in the corpus.
C10_DriverAndMedicalKeyword ==
  (profile # NoProfile /\ str_in("driver", Corpus) /\ str_in("hospital", Corpus))
    => /\ Has(profile, "Vehicle operation")
       /\ Has(profile, "Medical decision")
            = \E kw \in {"diagnosis", "treatment", "medical decision",
                         "clinical decision", "patient care"} :
                str_in(kw, Corpus)

\* a corpus with "driver" and "hospital" has been harvested, and "Medical
\* decision" is not among the contexts
C10_Witness ==
  /\ profile # NoProfile
  /\ str_in("driver", Corpus)
  /\ str_in("hospital", Corpus)
  /\ Has(profile, "Vehicle operation")
  /\ ~Has(profile, "Medical decision")

\* the lower-cased description alone, without what combined_info adds to it
DescriptionLower == lower(input.description)

\* entry i of a taxonomy has a keyword in the lower-cased description
InDescription(table, i) == any_in(table[i].keywords, DescriptionLower)

\* C11: with search disabled, a description that contains none of the
\* deployment-context keywords yields a profile whose deployment_context is
\* the default "General commercial use" (the corpus being the description
\* followed by the empty supplementary text and nothing else).
C11_DefaultDeploymentContext ==
  (/\ profile # NoProfile
   /\ \A i \in 1..Len(deployment_contexts) :
        ~InDescription(deployment_contexts, i))
    => profile.deployment_context = "General commercial use"

\* the entries of a taxonomy with a keyword in the corpus
Hits(table) == { i \in 1..Len(table) : Present(table, i) # {} }

\* the labels of a taxonomy
Labels(table) == { table[i].label : i \in 1..Len(table) }

\* value is the label of the earliest entry of the taxonomy with a keyword in
\* the corpus, and the default when there is no such entry
FirstHitOrDefault(value, table, default) ==
  LET hits == Hits(table)
  IN  /\ hits = {} => value = default
      /\ hits # {} =>
           \E i \in hits :
             /\ value = table[i].label
             /\ \A j \in hits : i <= j

\* C12: decision_making_role, deployment_context and user_base are each the
\* earliest-declared label of their taxonomy with any keyword in the
\* lower-cased corpus, however many keywords later labels match, and the
\* default ("Informational", "General commercial use", "General public")
\* when no label matches; each holds one value of its fixed label set.
C12_FirstHitInDeclaredOrder ==
  profile # NoProfile =>
    /\ FirstHitOrDefault(profile.decision_making_role, decision_indicators,
                         "Informational")
    /\ FirstHitOrDefault(profile.deployment_context, deployment_contexts,
                         "General commercial use")
    /\ FirstHitOrDefault(profile.user_base, user_bases, "General public")
    /\ profile.decision_making_role \in Labels(decision_indicators)
    /\ profile.deployment_context
         \in Labels(deployment_contexts) \cup {"General commercial use"}
    /\ profile.user_base \in Labels(user_bases)

\* a later label matches more keywords than the earliest matching one, which
\* is nevertheless the value; and another field holds its default
C12_Witness ==
  /\ profile # NoProfile
  /\ \E i, j \in Hits(deployment_contexts) :
       /\ i < j
       /\ Cardinality(Present(deployment_contexts, i))
            < Cardinality(Present(deployment_contexts, j))
       /\ profile.deployment_context = deployment_contexts[i].label
  /\ Hits(decision_indicators) = {}
  /\ profile.decision_making_role = "Informational"

\* the purposes in their priority order, each with the words that select it
PurposeGroups ==
  << [label |-> "identification", keywords |-> <<"identification", "identify">>],
     [label |-> "emotion recognition", keywords |-> <<"emotion", "sentiment">>],
     [label |-> "categorisation",
      keywords |-> <<"categorization", "categorisation">>],
     [label |-> "authentication",
      keywords |-> <<"verification", "authenticate">>] >>

\* C13: biometrics_purpose is set only if biometrics_involved is true;
\* biometrics_involved is true exactly when a biometric-category keyword
\* occurs in the corpus; when set, the purpose is the first group of the
\* priority list identification > emotion > categorisation > verification
\* with a word anywhere in the corpus, whichever biometric category matched.
C13_BiometricsPurpose ==
  profile # NoProfile =>
    /\ profile.biometrics_purpose # None => profile.biometrics_involved
    /\ profile.biometrics_involved = (Hits(biometric_indicators) # {})
    /\ profile.biometrics_purpose # None =>
         LET groups == Hits(PurposeGroups)
         IN  \E g \in groups :
               /\ profile.biometrics_purpose = PurposeGroups[g].label
               /\ \A h \in groups : g <= h
    /\ (profile.biometrics_involved /\ Hits(PurposeGroups) # {})
         => profile.biometrics_purpose # None

\* the corpus has "fingerprint" and, elsewhere, "identify": the fingerprint
\* category matched and the purpose is "identification"
C13_Witness ==
  /\ profile # NoProfile
  /\ str_in("fingerprint scan identify", Corpus)
  /\ Hits(biometric_indicators) = {2}
  /\ profile.biometrics_involved
  /\ profile.biometrics_purpose = "identification"

(***************************************************************************)
(* Properties of the pipeline: harvest, then classify                      *)
(***************************************************************************)

\* the description holds a word that the Exception stage or one of the
\* first two tests of the Prohibited stage looks for
ExceptionOrManipulationWords ==
  \/ str_in("research", DescriptionLower) /\ str_in("scientific", DescriptionLower)
  \/ any_in(<<"military", "defence", "defense">>, DescriptionLower)
  \/ any_in(<<"manipulate", "subliminal", "exploit vulnerabilities">>,
            DescriptionLower)
  \/ str_in("social scor", DescriptionLower)

\* the corpus describes emotion recognition in the workplace
EmotionRecognitionAtWork ==
  /\ Present(biometric_indicators, 3) # {}
  /\ profile.biometrics_purpose = "emotion recognition"
  /\ str_in("workplace", Corpus) \/ str_in("employee", Corpus)

\* C14: a profile harvested from a corpus with an emotion-recognition
\* biometric keyword (purpose "emotion recognition") and a workplace keyword,
\* with no exception, subliminal or social-scoring keyword in the
\* description, is classified Prohibited with the reasoning line of
\* emotion recognition in workplace/education.
C14_EmotionAtWorkProhibited ==
  (/\ result # NoResult
   /\ EmotionRecognitionAtWork
   /\ ~ExceptionOrManipulationWords)
    => /\ result.risk_level = PROHIBITED
       /\ list_in("PROHIBITED: Emotion recognition in workplace/education (Article 5.1f)",
                  result.reasoning)

\* the risk level an example's "expected" text names
ExpectedLevel(expected) ==
  IF prefix(expected, 9) = "High-Risk" THEN HIGH_RISK
  ELSE IF prefix(expected, 8) = "Low-Risk" THEN LOW_RISK
  ELSE IF prefix(expected, 12) = "Transparency" THEN TRANSPARENCY_REQUIREMENTS
  ELSE None

\* C15: a harvested profile with the "Medical decision" context and no
\* exception or prohibited condition is classified High-Risk; and each of the
\* five examples of the web form (search disabled) is classified as its
\* "expected" text states.
C15_MedicalDecisionAndExamples ==
  result # NoResult =>
    /\ (/\ Has(profile, "Medical decision")
        /\ ~StageTrue(1, profile)
        /\ ~StageTrue(2, profile))
         => result.risk_level = HIGH_RISK
    /\ \A i \in 1..Len(examples) :
         input.description = examples[i].description
           => result.risk_level = ExpectedLevel(examples[i].expected)

\* C15 for the "Medical Diagnosis Assistant" example alone
C15_MedicalExample ==
  (result # NoResult /\ input.name = "Medical Diagnosis Assistant")
    => result.risk_level = HIGH_RISK

\* the four other examples are classified as they state
C15_OtherExamples ==
  \A i \in 1..Len(examples) :
    (/\ result # NoResult
     /\ input.description = examples[i].description
     /\ input.name # "Medical Diagnosis Assistant")
      => result.risk_level = ExpectedLevel(examples[i].expected)

(***************************************************************************)
(* Properties of the search step                                           *)
(***************************************************************************)

\* C16: whatever the queries of one request return, also result records
\* without a URL, the profile's search_sources holds no source identifier
\* twice (a missing URL counting as the empty string).
C16_SourcesUnique ==
  profile # NoProfile =>
    \A a, b \in 1..Len(profile.search_sources) :
      a # b => profile.search_sources[a] # profile.search_sources[b]

\* C16 for the results that carry a URL: no URL that a result carries is
\* listed twice
C16_GivenUrlsUnique ==
  profile # NoProfile =>
    \A a, b \in 1..Len(profile.search_sources) :
      (a # b /\ profile.search_sources[a] # "")
        => profile.search_sources[a] # profile.search_sources[b]

\* the provider is installed and opens, and query q does not raise
Answered(q) ==
  ddgs.available /\ ddgs.opens /\ q \in 1..Len(ddgs.text) /\ ~ddgs.text[q].raises

\* the search came to nothing: provider missing or not opening, or every
\* query raising
SearchFailed ==
  ~ddgs.available \/ ~ddgs.opens \/ \A q \in 1..Len(ddgs.text) : ~Answered(q)

\* query q did not raise and returned at least one result
Fruitful(q) == Answered(q) /\ ddgs.text[q].results # <<>>

\* the first result of the first query that returned any
FirstResult ==
  LET q == CHOOSE a \in 1..Len(ddgs.text) :
             Fruitful(a) /\ \A b \in 1..Len(ddgs.text) : Fruitful(b) => a <= b
  IN  ddgs.text[q].results[1]

\* C17: search failures do not reach the caller of harvest_from_description.
\* Whatever the provider does, the harvest step leaves a profile; the
\* results of a query that did not raise are collected and used whether or
\* not the other query raised; and when the provider is missing, cannot be opened,
\* or every query raises, the supplementary text and the source list are
\* empty and the profile is the one built from the description alone.
C17_SearchFailuresContained ==
  (profile # NoProfile /\ enable_search) =>
       /\ \A q \in 1..Len(ddgs.text) :
            Answered(q) =>
              \A i \in 1..Len(ddgs.text[q].results) :
                list_in(get(ddgs.text[q].results[i], "href", ""),
                        profile.search_sources)
       /\ (\E q \in 1..Len(ddgs.text) : Fruitful(q)) =>
            LET snippet == get(FirstResult, "body", "")
            IN  /\ profile.additional_info # None
                /\ str_in(snippet, profile.additional_info)
                /\ \A i \in 1..Len(risk_indicators) :
                     any_in(risk_indicators[i].keywords, lower(snippet))
                       => Has(profile, risk_indicators[i].label)
       /\ SearchFailed =>
            /\ profile.additional_info = None
            /\ profile.search_sources = <<>>
            /\ profile = harvest_from_description(input.name, input.company,
                                                  input.description, "", <<>>)

\* the first query raised, the second returned results, and the profile
\* carries them
C17_Witness ==
  /\ profile # NoProfile
  /\ enable_search
  /\ ddgs.available /\ ddgs.opens
  /\ ddgs.text[1].raises
  /\ Answered(2)
  /\ Len(ddgs.text[2].results) = 2
  /\ profile.search_sources = <<"https://a.example", "">>
  /\ profile.additional_info = "- Acme: police camera\n- : school exam"
  /\ Has(profile, "Law enforcement")

\* the provider cannot be opened and a profile was still built
C17_WitnessCannotOpen ==
  /\ profile # NoProfile
  /\ enable_search
  /\ ddgs = CannotOpen
  /\ profile.search_sources = <<>>

(***************************************************************************)
(* Totality of the pipeline                                                *)
(***************************************************************************)

\* profile is a complete AISystemProfile with every categorical field in
\* its label set, and result (once there is one) a complete
\* ClassificationResult
WellFormed ==
  /\ profile # NoProfile =>
       /\ profile.sector \in {SectorNames[i] : i \in 1..9} \cup {"General"}
       /\ profile.biometrics_involved \in BOOLEAN
       /\ profile.biometrics_purpose \in BiometricsPurposes
       /\ profile.decision_making_role \in Labels(decision_indicators)
       /\ profile.deployment_context
            \in Labels(deployment_contexts) \cup {"General commercial use"}
       /\ profile.user_base \in Labels(user_bases)
       /\ \A i \in 1..Len(profile.high_risk_context) :
            profile.high_risk_context[i] \in Labels(risk_indicators)
       /\ \A i \in 1..Len(profile.data_processed) :
            profile.data_processed[i] \in Labels(data_indicators)
       /\ Len(profile.primary_purpose) <= 200
  /\ calls > 0 =>
       /\ result # NoResult
       /\ result.risk_level \in RiskLevel
       /\ result.confidence \in {"High", "Medium", "Low"}
       /\ Len(result.reasoning) >= 1
       /\ Len(result.relevant_articles) >= 1

\* what an empty description yields with search disabled
EmptyDescriptionDefaults ==
  (input # NoInput /\ input.description = "") =>
    /\ profile # NoProfile =>
         /\ profile.sector = "General"
         /\ ~profile.biometrics_involved
         /\ profile.biometrics_purpose = None
         /\ profile.high_risk_context = <<>>
         /\ profile.data_processed = <<>>
    /\ result # NoResult => result.risk_level = LOW_RISK

\* C18: for every name, company and description, the empty description and
\* descriptions under 50 characters included, harvest_from_description
\* leaves a complete profile and the classify call that follows a complete
\* ClassificationResult, never an error; an empty description with search disabled yields sector
\* "General", no biometrics, empty high_risk_context and data_processed, and
\* risk level Low-Risk.
C18_PipelineTotal == WellFormed /\ EmptyDescriptionDefaults

\* the empty description has been harvested and classified Low-Risk
C18_Witness ==
  /\ input # NoInput
  /\ input.description = ""
  /\ result # NoResult
  /\ result.risk_level = LOW_RISK
  /\ profile.sector = "General"

(***************************************************************************)
(* Properties of the Prohibited stage                                      *)
(***************************************************************************)

\* the four conditions of the Prohibited stage, in the order of the claim
ProhibitedHolds(k, p) ==
  LET d == lower(p.description)
  IN  CASE k = 1 -> \/ str_in("manipulate", d)
                    \/ str_in("subliminal", d)
                    \/ str_in("exploit vulnerabilities", d)
        [] k = 2 -> str_in("social scor", d)
        [] k = 3 -> /\ p.biometrics_involved
                    /\ p.biometrics_purpose = "identification"
                    /\ str_in("real-time", d) \/ str_in("live", d)
                    /\ str_in("public", lower(p.deployment_context))
        [] k = 4 -> /\ p.biometrics_purpose = "emotion recognition"
                    /\ \/ Has(p, "Workplace")
                       \/ Has(p, "Educational assessment")

ProhibitedLines ==
  << "PROHIBITED: Subliminal manipulation (Article 5.1a)",
     "PROHIBITED: Social scoring system (Article 5.1c)",
     "PROHIBITED: Real-time remote biometric identification (Article 5.1h)",
     "PROHIBITED: Emotion recognition in workplace/education (Article 5.1f)" >>

ProhibitedHeld(p) == { k \in 1..4 : ProhibitedHolds(k, p) }

\* C19: when classify reaches the Prohibited stage, the stage is true iff at
\* least one of the four conditions (subliminal manipulation, social scoring,
\* real-time remote biometric identification, emotion recognition in
\* workplace/education) holds, and the reasoning then holds exactly one
\* line, that of the first of the four that holds, even when several hold.
C19_FirstProhibitedCondition ==
  (calls > 0 /\ ~StageTrue(1, profile)) =>
    LET held == ProhibitedHeld(profile)
    IN  /\ (result.risk_level = PROHIBITED) = (held # {})
        /\ held # {} =>
             \E k \in held :
               /\ \A j \in held : k <= j
               /\ result.reasoning = <<ProhibitedLines[k]>>
        /\ held = {} =>
             \A k \in 1..4 : ~list_in(ProhibitedLines[k], result.reasoning)
        /\ list_in("Article 5: Prohibited AI practices", result.decision_path)

\* two conditions hold, and only the line of the earlier one is recorded
C19_Witness ==
  /\ calls > 0
  /\ ~StageTrue(1, profile)
  /\ Cardinality(ProhibitedHeld(profile)) >= 2
  /\ result.risk_level = PROHIBITED
  /\ Len(result.reasoning) = 1

\* each of the four conditions decides alone in some run
C19_WitnessEach ==
  /\ calls > 0
  /\ ~StageTrue(1, profile)
  /\ ProhibitedHeld(profile) = {4}
  /\ Has(profile, "Workplace")
  /\ result.reasoning = <<ProhibitedLines[4]>>

(***************************************************************************)
(* Properties of _extract_primary_purpose                                  *)
(***************************************************************************)

\* the positions of text that belong to its k-th sentence: those that are
\* not a full stop and have k - 1 full stops before them
SentencePositions(text, k) ==
  { i \in 1..Len(text) :
      /\ SubSeq(text, i, i) # "."
      /\ Cardinality({ j \in 1..i : SubSeq(text, j, j) = "." }) = k - 1 }

NumSentences(text) ==
  1 + Cardinality({ j \in 1..Len(text) : SubSeq(text, j, j) = "." })

\* the characters of s at the positions P (an interval), trimmed of the
\* white space at both ends
TrimmedAt(s, P) ==
  LET Q == { i \in P : SubSeq(s, i, i) \notin Whitespace }
  IN  IF Q = {} THEN ""
      ELSE SubSeq(s, CHOOSE i \in Q : \A j \in Q : i <= j,
                     CHOOSE i \in Q : \A j \in Q : j <= i)

\* the k-th sentence of text, trimmed
Sentence(text, k) == TrimmedAt(text, SentencePositions(text, k))

\* sentence k qualifies under rule (1): it holds the name or a listed verb,
\* in any case, and its trimmed length is strictly between 20 and 200
ByNameOrVerb(text, name, k) ==
  LET low == lower(Sentence(text, k))
  IN  /\ \/ str_in(lower(name), low)
         \/ \E v \in {"uses", "enables", "provides", "helps"} : str_in(v, low)
      /\ Len(Sentence(text, k)) > 20
      /\ Len(Sentence(text, k)) < 200

\* sentence k qualifies under rule (2)
Substantial(text, k) == Len(Sentence(text, k)) > 30

First(S) == CHOOSE k \in S : \A j \in S : k <= j

\* the value the three rules give
PurposeByRules(text, name) ==
  LET one == { k \in 1..NumSentences(text) : ByNameOrVerb(text, name, k) }
      two == { k \in 1..NumSentences(text) : Substantial(text, k) }
  IN  IF one # {} THEN Sentence(text, First(one))
      ELSE IF two # {}
        THEN IF Len(Sentence(text, First(two))) <= 150
               THEN Sentence(text, First(two))
               ELSE SubSeq(Sentence(text, First(two)), 1, 150)
      ELSE IF Len(text) <= 150 THEN text
      ELSE SubSeq(text, 1, 150)

\* C20: _extract_primary_purpose splits the text on "." and returns (1) the
\* first sentence, trimmed and verbatim, that holds the name
\* (case-insensitively) or one of uses, enables, provides, helps and whose
\* trimmed length is strictly between 20 and 200; else (2) the first
\* sentence whose trimmed length exceeds 30, cut to 150 characters; else
\* (3) the first 150 characters of the text.  A sentence that qualifies
\* under (1) wins over an earlier one that qualifies only under (2).
C20_PrimaryPurposeRules ==
  purpose # NoPurpose =>
    purpose.returned = PurposeByRules(input.text, input.name)

\* the first sentence qualifies only under (2), the second under (1), and
\* the second is returned
C20_Witness ==
  /\ purpose # NoPurpose
  /\ Substantial(input.text, 1)
  /\ ~ByNameOrVerb(input.text, input.name, 1)
  /\ ByNameOrVerb(input.text, input.name, 2)
  /\ purpose.returned = Sentence(input.text, 2)
  /\ purpose.returned # Sentence(input.text, 1)

\* rule (2) cuts a sentence of more than 150 characters
C20_WitnessTruncated ==
  /\ purpose # NoPurpose
  /\ \A k \in 1..NumSentences(input.text) :
       ~ByNameOrVerb(input.text, input.name, k)
  /\ \E k \in 1..NumSentences(input.text) :
       Len(Sentence(input.text, k)) > 150
  /\ Len(purpose.returned) = 150

\* rule (3): no sentence qualifies and the text itself is returned, untrimmed
C20_WitnessWholeText ==
  /\ purpose # NoPurpose
  /\ input.text # ""
  /\ \A k \in 1..NumSentences(input.text) :
       ~ByNameOrVerb(input.text, input.name, k) /\ ~Substantial(input.text, k)
  /\ purpose.returned = input.text

(***************************************************************************)
(* Properties of the web form                                              *)
(***************************************************************************)

\* the form has been submitted and accepted: a profile was built and shown
Accepted == "sector" \in DOMAIN input /\ calls > 0 /\ profile # NoProfile

\* C21: in the web form the sector is detected from the text only when the
\* selection is left at "Auto-detect"; a specific selection is the sector of
\* the profile that is built and displayed.
C21_SelectionDeterminesSector ==
  Accepted =>
    IF input.sector = "Auto-detect"
      THEN profile.sector = sector_of(lower(input.description))
      ELSE profile.sector = input.sector

\* C21, what the handler does: the selection is never handed to the
\* harvester, and the sector shown is the one detected in the description
\* (no search result reaches these profiles) whatever was selected
C21_SectorAlwaysDetected ==
  Accepted => profile.sector = sector_of(lower(input.description))

\* a specific sector was selected and the profile shows another one
C21_SelectionIgnored ==
  /\ Accepted
  /\ input.sector = "Healthcare"
  /\ profile.sector = "General"

(***************************************************************************)
(* Properties of sequences of classify calls                               *)
(***************************************************************************)

\* the profile is High-Risk through the safety-critical/vehicle-operation
\* category: no earlier stage and no earlier category holds
ViaSafetyCategory(p) == FirstTrueStage(p) = 3 /\ FirstCategory(p) = 3

\* C22: for every profile and every sequence of calls on one engine,
\* classify never returns confidence "High"; confidence is "Medium" exactly
\* when the result is High-Risk through the safety-critical/vehicle-operation
\* category (two reasoning lines) and "Low" in every other case.
C22_ConfidenceNeverHigh ==
  result # NoResult =>
    /\ result.confidence # "High"
    /\ Len(result.reasoning) <= 2
    /\ result.confidence =
         IF ViaSafetyCategory(profile) THEN "Medium" ELSE "Low"
    /\ ViaSafetyCategory(profile) =>
         result.risk_level = HIGH_RISK /\ Len(result.reasoning) = 2

\* a later call of a sequence returned "Medium" for a safety-critical profile
C22_Witness ==
  /\ calls >= 2
  /\ ViaSafetyCategory(profile)
  /\ result.risk_level = HIGH_RISK
  /\ result.confidence = "Medium"

\* a later call of a sequence returned "Low" for a High-Risk profile of
\* another category
C22_WitnessLow ==
  /\ calls >= 2
  /\ result.risk_level = HIGH_RISK
  /\ ~ViaSafetyCategory(profile)
  /\ result.confidence = "Low"

\* the addresses held by the results returned before the last one
EarlierAddresses ==
  UNION { {returned[i].result.reasoning, returned[i].result.decision_path,
           returned[i].result.recommendations} :
            i \in 1..(Len(returned) - 1) }

\* C23: a ClassificationResult already returned is never changed by later
\* classify calls on the same engine.  The decision_path of a result, and
\* its reasoning and recommendations when they are no placeholder, are the
\* engine's own accumulator lists; the next call binds new lists instead
\* of clearing those, so after any sequence of calls every earlier result
\* still has the contents it was returned with.  classify also leaves the
\* profile it is given unchanged.
C23_ReturnedResultsUnchanged ==
  returned # <<>> =>
    LET last == returned[Len(returned)]
    IN  /\ \A i \in DOMAIN returned :
             deref(heap, returned[i].result) = returned[i].held
        /\ last.result.decision_path = heap.self.decision_path
        /\ reasoning # <<>> => last.result.reasoning = heap.self.reasoning
        /\ recommendations # <<>> =>
             last.result.recommendations = heap.self.recommendations
        /\ EarlierAddresses \cap {heap.self.decision_path, heap.self.reasoning,
                                  heap.self.recommendations} = {}
        /\ profile = last.given

\* two calls were made; the first result refers to lists the engine had
\* filled, and the second call filled its own lists differently
C23_Witness ==
  /\ Len(returned) >= 2
  /\ returned[1].result.reasoning = 5
  /\ returned[1].held.reasoning # <<>>
  /\ returned[1].held.risk_level = HIGH_RISK
  /\ returned[2].held.risk_level = EXCEPTION
  /\ returned[2].result.reasoning = heap.self.reasoning
  /\ heap.lists[heap.self.reasoning] # returned[1].held.reasoning

(***************************************************************************)
(* The fields classify reads                                               *)
(***************************************************************************)

\* the profile that agrees with p on description, biometrics_involved,
\* biometrics_purpose, high_risk_context and deployment_context and has the
\* other nine fields of a constructed profile
FiveFields(p) ==
  Constructed(p.description, p.biometrics_involved, p.biometrics_purpose,
              p.high_risk_context, p.deployment_context)

\* C24: the result of classify depends only on the profile's description,
\* biometrics_involved, biometrics_purpose, high_risk_context and
\* deployment_context: whatever the name, company, sector, primary_purpose,
\* user_base, decision_making_role, data_processed, additional_info and
\* search_sources are, the result (and what the call leaves in the
\* accumulators) is that of the profile with the same five fields and the
\* other nine fixed, so two profiles that agree on the five receive equal
\* results.
C24_ResultDependsOnFiveFields ==
  result # NoResult =>
    LET c == classify(RiskClassificationAgent, FiveFields(profile))
    IN  /\ result = c.result
        /\ self_now = c.self

\* a profile with a "Fully Automated Decision" role, sensitive data types
\* and keywords of the stages in its name and primary purpose has been
\* classified Low-Risk
C24_Witness ==
  /\ result # NoResult
  /\ profile # FiveFields(profile)
  /\ profile.decision_making_role = "Fully Automated Decision"
  /\ profile.data_processed = <<"Biometric data", "Health data">>
  /\ profile.name = "Military Chatbot"
  /\ profile.sector = "Law Enforcement"
  /\ result.risk_level = LOW_RISK

(***************************************************************************)
(* The decision-making role                                                *)
(***************************************************************************)

\* the corpus has a keyword of the entry of decision_indicators with the label
RoleKeyword(label) ==
  \E i \in 1..Len(decision_indicators) :
    /\ decision_indicators[i].label = label
    /\ any_in(decision_indicators[i].keywords, Corpus)

\* C25: "Decision-making" is declared before "Fully Automated Decision" and
\* its keyword "decision" is a substring of "automated decision" and
\* "automatic decision", so every corpus containing either phrase gets
\* decision_making_role "Decision-making"; the role "Fully Automated
\* Decision" is produced only for a corpus that contains "without human
\* intervention" and no keyword of the "Decision-making" or
\* "Assistive/Recommendatory" labels.
C25_AutomatedDecisionRole ==
  profile # NoProfile =>
    LET corpus == Corpus
    IN  /\ (str_in("automated decision", corpus)
              \/ str_in("automatic decision", corpus))
             => profile.decision_making_role = "Decision-making"
        /\ profile.decision_making_role = "Fully Automated Decision"
             => /\ str_in("without human intervention", corpus)
                /\ ~RoleKeyword("Decision-making")
                /\ ~RoleKeyword("Assistive/Recommendatory")

\* a description with "automated decision" and "without human intervention"
\* was harvested with the role "Decision-making"
C25_Witness ==
  /\ profile # NoProfile
  /\ str_in("automated decision", Corpus)
  /\ str_in("without human intervention", Corpus)
  /\ profile.decision_making_role = "Decision-making"

\* the role "Fully Automated Decision" was produced
C25_WitnessFullyAutomated ==
  /\ profile # NoProfile
  /\ profile.decision_making_role = "Fully Automated Decision"
  /\ RoleKeyword("Informational")

\* "without human intervention" next to an assistive keyword: the role is
\* "Assistive/Recommendatory"
C25_WitnessAssistive ==
  /\ profile # NoProfile
  /\ str_in("without human intervention", Corpus)
  /\ RoleKeyword("Assistive/Recommendatory")
  /\ profile.decision_making_role = "Assistive/Recommendatory"

====
